---- MODULE Spec2Model ----
(***************************************************************************)
(* State-machine model of the Discord voice gateway plugin:                *)
(*   - PlaybackQueue      (src/src/audio/playback-queue.ts)                *)
(*   - VoiceSession       (src/unnamed/part_003, voice-session.ts)         *)
(*   - SpeechToSpeechEngine (src/src/engine/speech-to-speech-engine.ts)    *)
(*   - PipelineEngine     (src/unnamed/part_000, pipeline-engine.ts)       *)
(*   - SessionManager     (src/unnamed/part_004, session-manager.ts)       *)
(* Each component has its own specification; the variables of the other    *)
(* components are held at their idle values while one is explored.         *)
(***************************************************************************)
EXTENDS Integers, Sequences, FiniteSets, TLC

\* ---------------------------------------------------------------- bounds
\* Number of TTS streams handed to PlaybackQueue.enqueue in one run.
MaxStreams == 2
\* Number of audio chunks one TTS stream emits at most.
MaxChunks == 2

VARIABLES
    \* ---- PlaybackQueue (playback-queue.ts:20-24)
    queue,            \* QueueEntry[]: pending entries, by stream id
    currentEntry,     \* QueueEntry | null: stream id, NoEntry for null
    entries,          \* per entry: audioChunks (count buffered), ready, error
    draining,         \* re-entrancy guard of clear()
    \* ---- EchoSuppressor (echo-suppressor.ts:18)
    isBotSpeaking,
    \* ---- AudioSender / AudioPlayer as seen by its callers
    senderLog,        \* chunks handed to sender.playBuffer, in order: <<stream, k>>
    senderPlaying,    \* the player holds a resource it has not finished
    idlePending,      \* an "idle" notification of sender.stop() not yet delivered
    \* ---- the TTS streams (environment of the queue)
    nextStream,       \* id the next enqueued stream gets
    streamState,      \* "unused" | "live" | "ended" | "errored" | "cancelled"
    cancelCalls,      \* number of cancel() calls each stream has received
    \* ---- events of the queue and history of stream errors (observation only)
    errorEvents,      \* streams whose error the queue passed to emit("error", err)
    erroredAs,        \* per stream: what its entry was when it errored:
                      \* "none" | "pending" | "current" | "gone"
    \* ---- history of clear() calls (observation only)
    clearMark,        \* per stream: Len(senderLog) at the first clear() after its enqueue, -1 if none
    cleared,          \* streams that were current or pending when a clear() ran
    lastOp            \* the operation or listener that ran last

\* Number of users heard in the voice channel.
MaxUsers == 1

VARIABLES
    \* ---- VoiceSession (voice-session.ts, part_003:96-105)
    sessionState,     \* _state: "idle" | "listening" | "processing" | "speaking"
    activePassthrough,\* a PassThrough is open (non-null)
    sessionPc,        \* position of start()/stop(): "new", "running", the awaits of stop(), "stopped"
    userVads,         \* keys of the userVads map
    liveVads,         \* VADs created and not yet disposed (their listeners attached)
    disposing,        \* the VADs whose dispose() stop() is awaiting
    activeSpeakers,   \* the activeSpeakers set
    activeStreams,    \* AudioReceiver.activeStreams (part_001:20)
    \* ---- configuration and engine of the session
    bargeIn,          \* config.behavior.bargeIn
    echoSuppression,  \* config.behavior.echoSuppression
    engineMode,       \* engine.mode: "pipeline" | "speech-to-speech"
    interrupted,      \* PipelineEngine.interrupted (part_000:104)
    \* ---- observation of the last handled event
    lastEv            \* its kind, the state it found, and the calls its handler made

\* Number of tool-call events one speech-to-speech session delivers.
MaxToolCalls == 2

\* Outbound frames registered with one EchoSuppressor, the number of times
\* their RMS changes from one frame to the next, and the 150 ms steps its
\* clock advances.
MaxOutbound == 51
MaxRmsChanges == 1
MaxTicks == 2

\* EchoSuppressor.historyLength and the cooldown after the bot stops speaking.
historyLength == 50
ECHO_COOLDOWN_MS == 300

\* Number of addTurn calls on one ConversationContext.
MaxAppends == 52

\* Number of tokens the text fed to one SentenceSplitter is cut into.
MaxTokens == 4

\* Number of management RPC invocations and of service starts.
MaxRpcCalls == 2
MaxServiceStarts == 1

\* Utterances transcribed and sentences synthesized by one pipeline engine
\* when its providers may fail.
MaxUtterances == 2
MaxSentences == 2

\* Frames one VoiceActivityDetector has in neural processing at once, and the
\* 500 ms steps its clock advances.
MaxInFlight == 2
MaxVadTicks == 4

\* config.vad.silenceDurationMs by default, and the RMS threshold the default
\* config.vad.threshold of 0.5 scales to (0.5 * 1600).
SilenceDurationMs == 1500
RmsThreshold == 800

\* TTS streams of one running pipeline session that are live at once.
MaxLive == 2

\* Number of join(g, c) and of leave(g) calls on the one guild modelled.
MaxJoins == 3
MaxLeaves == 1

VARIABLES
    \* ---- SessionManager (session-manager.ts, part_004:22), one guild
    sessions,         \* the map's entry for the guild: a session id, NoSession if absent
    nextSession,      \* id the next `new VoiceSession` gets
    startPc,          \* per session, its start(): "none" | "pending" | "done" | "failed"
    stopPc,           \* per session, its stop():  "none" | "pending" | "done"
    summaries,        \* number of coreBridge.dispatchSessionSummary calls made
    joinPc,           \* per join call: "idle" | "await-start" | "done" | "failed"
    joinSess,         \* per join call: the session it left or whose start() it awaits
    leavePc,          \* per leave call: "idle" | "done" | "failed"
    leaveSess         \* per leave call: the session it found in the map

smOnly == <<sessions, nextSession, startPc, stopPc, summaries, joinPc, joinSess,
            leavePc, leaveSess>>

\* Turns (generateAndSpeak runs) of one engine and frames buffered for one
\* user; the engine creates at most MaxStreams TTS streams.
MaxTurns == 2
MaxFrames == 1

VARIABLES
    \* ---- PipelineEngine (pipeline-engine.ts, part_000:100-104)
    userAudioBuffers, \* per user, the number of frames accumulated
    discarded,        \* per user: the buffer holds frames fed before an
                      \* end-of-speech of the user that the engine discarded
    isProcessing,     \* the processing lock
    \* ---- the turns of the engine and their TTS streams
    turns,            \* per turn: kind, phase, the splitter's buffer, sentences submitted, ...
    nextTurn,         \* id the next turn gets
    tts,              \* per TTS stream: its state, its turn and the sentence it speaks
    nextTts,          \* id the next TTS stream gets
    \* ---- observation
    lastEmit          \* the events the engine emitted in its last emitting step

peOnly == <<userAudioBuffers, discarded, isProcessing, turns, nextTurn, tts, nextTts,
            lastEmit>>

\* WebSockets one GeminiLiveSession creates, turns added to the conversation.
MaxSockets == 3
MaxHistory == 2

\* GEMINI_SESSION_ROTATION_BUFFER_MS, the default of sessionDurationMs, the
\* history slice of buildSystemInstruction, the default of maxConversationTurns.
GEMINI_SESSION_ROTATION_BUFFER_MS == 60000
DefaultSessionDurationMs == 540000
HistorySlice == 10
MaxConversationTurns == 50

VARIABLES
    \* ---- SpeechToSpeechEngine with a GeminiLiveSession (gemini-live.ts:36-41)
    conversation,     \* the engine's ConversationContext.turns
    options,          \* options.conversationHistory handed to provider.connect
    rawDurationMs,    \* raw geminiLive.sessionDurationMs, Unset if not configured
    ws,               \* this.ws: a socket id, NoSocket for null
    isRotating,
    rotationTimer,    \* delay the pending timer was armed with, NoTimer for null
    geminiPc,         \* "new" | "connecting" | "ready" | "rotating" | "failed" | "closed"
    oldWs,            \* the socket rotateSession holds while it awaits connect()
    sockets,          \* per socket: readyState, the setup frame it carried, who closed it
    nextSocket,       \* id the next `new WebSocket` gets
    hasListeners,     \* the engine's listeners are attached to the session
    \* ---- observation of the last step of the session
    lastGem

gmOnly == <<conversation, options, rawDurationMs, ws, isRotating, rotationTimer,
            geminiPc, oldWs, sockets, nextSocket, hasListeners, lastGem>>

\* Rejoin attempts recorded for one disconnect, and rejoin chains
\* (attemptRejoin call chains) running at once.
MaxRejoins == 6
MaxChains == 2

\* RECONNECT_MAX_ATTEMPTS
RECONNECT_MAX_ATTEMPTS == 5

VARIABLES
    \* ---- DiscordConnection (connection.ts:22-25)
    connection,       \* "none" for null, else the voice connection's status
    heartbeatTimer,   \* the heartbeat interval is armed
    reconnectAttempts,
    channelId,        \* this.channelId is set (non-null)
    connPc,           \* the caller's join(): "new" | "joining" | "joined" | "failed"
    chains,           \* per rejoin chain: "idle" | "heal" | "sleep" | "joining" | "done"
    \* ---- observation
    rejoinDelays,     \* delays slept before the rejoin attempts since the connection was last ready
    gaveUp            \* attemptRejoin has given up and left

dcOnly == <<connection, heartbeatTimer, reconnectAttempts, channelId, connPc,
            chains, rejoinDelays, gaveUp>>

VARIABLES
    \* ---- createEngine and the resolved configuration it reads
    cfgMode,          \* config.mode
    cfgProvider,      \* config.s2s.provider, "" if not set
    cfgOpenaiKey,     \* config.s2s.openaiRealtime.apiKey
    cfgGeminiKey,     \* config.s2s.geminiLive.apiKey
    created,          \* mode of the engine createEngine returned, "none" before
    warned            \* createEngine logged the fallback warning

efOnly == <<cfgMode, cfgProvider, cfgOpenaiKey, cfgGeminiKey, created, warned>>

VARIABLES
    \* ---- VoiceSession.start and the transport objects it creates
    audioSender,      \* an AudioSender exists and is not disposed
    audioReceiver,    \* an AudioReceiver exists and is not disposed
    startRejected     \* what start() left behind when it rejected, NoReject before

scOnly == <<audioSender, audioReceiver, startRejected>>

\* variables of the queue alone, of the session alone, and of the objects both use
VARIABLES
    \* ---- tool bridge of SpeechToSpeechEngine (speech-to-speech-engine.ts:111)
    toolSession,      \* the engine's this.session: "open" | "null"
    toolCalls         \* per tool-call event: its call id, tool name, progress of
                      \* the handler, and the sendToolResult invocations made

tbOnly == <<toolSession, toolCalls>>

VARIABLES
    \* ---- EchoSuppressor (echo-suppressor.ts:17)
    echoBotSpeaking,      \* its isBotSpeaking flag
    botStoppedSpeakingAt, \* Date.now() at the last stamped stop, 0 initially
    outboundRmsHistory,   \* RMS values of the retained outbound frames
    echoNow,              \* Date.now()
    registered,           \* every outbound RMS registered since construction or reset
    lastFallAt,           \* time setSpeaking last took the flag from true to false
    lastSuppress          \* the last shouldSuppress call: frame RMS and result

esOnly == <<echoBotSpeaking, botStoppedSpeakingAt, outboundRmsHistory, echoNow,
            registered, lastFallAt, lastSuppress>>

VARIABLES
    \* ---- ConversationContext (conversation-context.ts:8)
    contextTurns,     \* its turns array; a turn is the number of its addTurn call
    contextMaxTurns,  \* its maxTurns
    appended          \* every turn passed to addTurn, in call order

ccOnly == <<contextTurns, contextMaxTurns, appended>>

VARIABLES
    \* ---- SentenceSplitter (part_000:280); strings are sequences of characters
    splitBuffer,      \* its buffer
    sentences,        \* what it has yielded: onSentence arguments, then flush's result
    tokenLens,        \* lengths of the tokens fed so far
    flushed           \* flush() has been called

ssOnly == <<splitBuffer, sentences, tokenLens, flushed>>

VARIABLES
    \* ---- plugin service and gateway RPC methods (index.ts:40)
    serviceRunning,   \* config and sessionManager are set (service started, not stopped)
    serviceStarts,    \* number of service start() calls so far
    rpcCalls          \* per invocation: method, progress, respond calls, whether it threw

rpcOnly == <<serviceRunning, serviceStarts, rpcCalls>>

VARIABLES
    \* ---- provider use of PipelineEngine (part_000:239, 256)
    fallbackStt,      \* the engine holds a fallback STT provider
    fallbackTts,      \* the engine holds a fallback TTS provider
    sttCalls,         \* per utterance: state of the primary and of the fallback
                      \* transcription, and what transcribeWithFallback gave
    ttsCalls          \* per sentence: state of its primary stream, whether a
                      \* fallback stream was opened, error events emitted

fbOnly == <<fallbackStt, fallbackTts, sttCalls, ttsCalls>>

VARIABLES
    \* ---- VoiceActivityDetector (part_002:20)
    vadEngine,        \* its engine field: "silero" | "rms"
    sileroVad,        \* "null" | "loading" (init pending) | "ready"
    rmsSpeaking,
    rmsLastSpeechTime,
    vadNow,           \* Date.now()
    sileroInFlight,   \* frames whose processSilero call is pending (above threshold or not)
    downgraded,       \* a load or processing error has switched the engine to RMS
    rmsEmittedLast,   \* last event processRms emitted: "none" | "speech-start" | "speech-end"
    lastAboveAt,      \* time processRms last saw a frame above the threshold
    sileroSpeaking,   \* the neural engine is inside a speech segment
    vadLastEvent,     \* last event the detector emitted: "none" | "speech-start" | "speech-end"
    vadPrevEvent,     \* the event it emitted before that one
    lastVad           \* the last process(pcm) or processRms(pcm) call

vadOnly == <<vadEngine, sileroVad, rmsSpeaking, rmsLastSpeechTime, vadNow,
             sileroInFlight, downgraded, rmsEmittedLast, lastAboveAt,
             sileroSpeaking, vadLastEvent, vadPrevEvent, lastVad>>

VARIABLES
    \* ---- a running VoiceSession on a PipelineEngine (part_003:92, part_000:89)
    utState,          \* VoiceSession._state
    utPassthrough,    \* activePassthrough is set
    utSenderPlaying,  \* the player holds a resource it has not finished
    utBuffered,       \* the user has frames in userAudioBuffers
    utIsProcessing,   \* PipelineEngine.isProcessing
    utInterrupted,    \* PipelineEngine.interrupted
    utHasFallback,    \* fallbackStt is set
    utPc,             \* processUtterance: "none" | "stt" | "fallback" | "llm"
    utKept,           \* responseTokens is not empty
    utResidual,       \* the splitter's buffer holds text
    utLive            \* TTS streams that have not ended

utOnly == <<utState, utPassthrough, utSenderPlaying, utBuffered, utIsProcessing,
            utInterrupted, utHasFallback, utPc, utKept, utResidual, utLive>>

pqOnly == <<queue, currentEntry, entries, draining, senderLog, nextStream,
            streamState, cancelCalls, errorEvents, erroredAs, clearMark,
            cleared, lastOp>>
vsRest == <<sessionState, activePassthrough, sessionPc, userVads, liveVads,
            disposing, activeSpeakers, activeStreams, bargeIn, echoSuppression,
            engineMode, lastEv>>
vsOnly == <<vsRest, interrupted>>
shared == <<isBotSpeaking, senderPlaying, idlePending>>

\* ---- frames of the components that follow
laterOnly == <<tbOnly, esOnly, ccOnly, ssOnly, rpcOnly, fbOnly, vadOnly,
              utOnly>>
oldOnly == <<pqOnly, vsOnly, shared, smOnly, peOnly, gmOnly, dcOnly, efOnly, scOnly>>
notTool == <<oldOnly, esOnly, ccOnly, ssOnly, rpcOnly, fbOnly, vadOnly,
    utOnly>>
notEcho == <<oldOnly, tbOnly, ccOnly, ssOnly, rpcOnly, fbOnly, vadOnly,
    utOnly>>
notContext == <<oldOnly, tbOnly, esOnly, ssOnly, rpcOnly, fbOnly, vadOnly,
    utOnly>>
notSplitter == <<oldOnly, tbOnly, esOnly, ccOnly, rpcOnly, fbOnly, vadOnly,
    utOnly>>
notRpc == <<oldOnly, tbOnly, esOnly, ccOnly, ssOnly, fbOnly, vadOnly, utOnly>>
notFallback == <<oldOnly, tbOnly, esOnly, ccOnly, ssOnly, rpcOnly, vadOnly,
    utOnly>>
notVad == <<oldOnly, tbOnly, esOnly, ccOnly, ssOnly, rpcOnly, fbOnly, utOnly>>
notTurn == <<oldOnly, tbOnly, esOnly, ccOnly, ssOnly, rpcOnly, fbOnly,
    vadOnly>>
\* ---- end of frames

vars == <<pqOnly, vsOnly, shared, smOnly, peOnly, gmOnly, dcOnly, efOnly, scOnly,
         laterOnly>>

\* what the actions of each component leave alone
notQueue == <<vsOnly, smOnly, peOnly, gmOnly, dcOnly, efOnly, scOnly, laterOnly>>
notSession == <<pqOnly, smOnly, peOnly, gmOnly, dcOnly, efOnly, scOnly, laterOnly>>
notManager == <<pqOnly, vsOnly, shared, peOnly, gmOnly, dcOnly, efOnly, scOnly, laterOnly>>
notPipeline == <<pqOnly, vsRest, shared, smOnly, gmOnly, dcOnly, efOnly, scOnly, laterOnly>>
notConnection == <<pqOnly, vsOnly, shared, smOnly, peOnly, gmOnly, efOnly, scOnly, laterOnly>>
notFactory == <<pqOnly, vsOnly, shared, smOnly, peOnly, gmOnly, dcOnly, scOnly, laterOnly>>
notStart == <<pqOnly, shared, smOnly, peOnly, gmOnly, efOnly, laterOnly>>
notGemini == <<pqOnly, vsOnly, shared, smOnly, peOnly, dcOnly, efOnly, scOnly, laterOnly>>

Users == 1..MaxUsers

Streams == 1..MaxStreams
NoEntry == 0

\* ------------------------------------------------------------ PlaybackQueue

\* The mutable objects one PlaybackQueue call touches, as one value.
PQWorld ==
    [queue |-> queue, currentEntry |-> currentEntry, entries |-> entries,
     draining |-> draining, speaking |-> isBotSpeaking, senderLog |-> senderLog,
     senderPlaying |-> senderPlaying, idlePending |-> idlePending,
     streamState |-> streamState, cancelCalls |-> cancelCalls,
     errorEvents |-> errorEvents]

PQCommit(w) ==
    /\ queue' = w.queue
    /\ currentEntry' = w.currentEntry
    /\ entries' = w.entries
    /\ draining' = w.draining
    /\ isBotSpeaking' = w.speaking
    /\ senderLog' = w.senderLog
    /\ senderPlaying' = w.senderPlaying
    /\ idlePending' = w.idlePending
    /\ streamState' = w.streamState
    /\ cancelCalls' = w.cancelCalls
    /\ errorEvents' = w.errorEvents
    /\ UNCHANGED notQueue

NewEntry == [audioChunks |-> 0, ready |-> FALSE, error |-> FALSE]

\* EchoSuppressor.setSpeaking: the flag takes the given value.
SetSpeaking(w, speaking) == [w EXCEPT !.speaking = speaking]

\* PlaybackQueue.feedChunk: registerOutbound, then sender.playBuffer(chunk).
FeedChunk(w, s, k) ==
    [w EXCEPT !.senderLog = Append(@, <<s, k>>), !.senderPlaying = TRUE]

\* The for-loop of processNext over the chunks already buffered.
RECURSIVE FeedBuffered(_, _, _)
FeedBuffered(w, s, k) ==
    IF k > w.entries[s].audioChunks THEN w
    ELSE FeedBuffered(FeedChunk(w, s, k), s, k + 1)

\* PlaybackQueue.processNext.
RECURSIVE ProcessNext(_)
ProcessNext(w) ==
    IF w.draining THEN w
    ELSE IF w.currentEntry # NoEntry THEN w
    ELSE IF w.queue = <<>> THEN SetSpeaking(w, FALSE)
    ELSE LET e  == Head(w.queue)
             w1 == [w EXCEPT !.queue = Tail(@), !.currentEntry = e]
         IN  IF w1.entries[e].error
             THEN ProcessNext([w1 EXCEPT !.currentEntry = NoEntry,
                                         !.errorEvents = @ \cup {e}])
             ELSE LET w2 == FeedBuffered(SetSpeaking(w1, TRUE), e, 1)
                  IN  IF w2.entries[e].ready /\ w2.entries[e].audioChunks = 0
                      THEN ProcessNext([w2 EXCEPT !.currentEntry = NoEntry])
                      ELSE w2

\* PlaybackQueue.removeEntry.
RemoveEntry(w, s) ==
    [w EXCEPT !.queue = SelectSeq(@, LAMBDA x : x # s)]

\* The sender "idle" listener registered in the constructor.
OnSenderIdle(w) ==
    IF w.draining THEN w
    ELSE ProcessNext([w EXCEPT !.currentEntry = NoEntry])

\* The stream "audio" listener registered by enqueue.
OnStreamAudio(w, s) ==
    LET w1 == [w EXCEPT !.entries[s].audioChunks = @ + 1]
    IN  IF w1.currentEntry = s
        THEN FeedChunk(w1, s, w1.entries[s].audioChunks)
        ELSE w1

\* The stream "end" listener registered by enqueue.
OnStreamEnd(w, s) == [w EXCEPT !.entries[s].ready = TRUE]

\* The stream "error" listener registered by enqueue.
OnStreamError(w, s) ==
    LET w1 == [w EXCEPT !.entries[s].error = TRUE, !.entries[s].ready = TRUE]
    IN  IF w1.currentEntry = s
        THEN ProcessNext([w1 EXCEPT !.currentEntry = NoEntry])
        ELSE RemoveEntry(w1, s)

\* TtsStream.cancel of the providers: cancelled = true, emit("end") to the
\* listeners still attached, removeAllListeners.
StreamCancel(w, s) ==
    LET w1 == IF w.streamState[s] = "live" THEN OnStreamEnd(w, s) ELSE w
    IN  [w1 EXCEPT !.streamState[s] = "cancelled", !.cancelCalls[s] = @ + 1]

RECURSIVE CancelAll(_, _)
CancelAll(w, q) ==
    IF q = <<>> THEN w ELSE CancelAll(StreamCancel(w, Head(q)), Tail(q))

\* AudioSender.stop: player.stop(true). A playing player goes idle; the
\* library reports that either inside the call (sync) or on a later tick.
SenderStop(w, sync) ==
    IF ~w.senderPlaying THEN w
    ELSE IF sync THEN OnSenderIdle([w EXCEPT !.senderPlaying = FALSE])
    ELSE [w EXCEPT !.senderPlaying = FALSE, !.idlePending = TRUE]

\* A clear() that drops the pending entries but leaves the current one alone.
PQClearPendingOnly(w, sync) ==
    LET w1 == [w EXCEPT !.draining = TRUE]
        w2 == [CancelAll(w1, w1.queue) EXCEPT !.queue = <<>>]
        w4 == SetSpeaking(SenderStop(w2, sync), FALSE)
    IN  [w4 EXCEPT !.draining = FALSE]

\* PlaybackQueue.clear.
PQClear(w, sync) ==
    LET w1 == [w EXCEPT !.draining = TRUE]
        w2 == [CancelAll(w1, w1.queue) EXCEPT !.queue = <<>>]
        w3 == IF w2.currentEntry # NoEntry
              THEN [StreamCancel(w2, w2.currentEntry) EXCEPT !.currentEntry = NoEntry]
              ELSE w2
        w4 == SetSpeaking(SenderStop(w3, sync), FALSE)
    IN  [w4 EXCEPT !.draining = FALSE]

\* PlaybackQueue.enqueue.
PQEnqueue(w, s) ==
    ProcessNext([w EXCEPT !.entries[s] = NewEntry, !.queue = Append(@, s)])

\* get isPlaying
IsPlaying == currentEntry # NoEntry \/ queue # <<>>

\* ---- actions of the queue specification

\* A fresh EchoSuppressor and an AudioSender whose player is idle.
SharedInit ==
    /\ isBotSpeaking = FALSE
    /\ senderPlaying = FALSE
    /\ idlePending = FALSE

PQInit ==
    /\ queue = <<>>
    /\ currentEntry = NoEntry
    /\ entries = [s \in Streams |-> NewEntry]
    /\ draining = FALSE
    /\ senderLog = <<>>
    /\ nextStream = 1
    /\ streamState = [s \in Streams |-> "unused"]
    /\ cancelCalls = [s \in Streams |-> 0]
    /\ errorEvents = {}
    /\ erroredAs = [s \in Streams |-> "none"]
    /\ clearMark = [s \in Streams |-> -1]
    /\ cleared = {}
    /\ lastOp = "init"

\* enqueue(stream) with a stream fresh from synthesizeStream.
Enqueue ==
    /\ nextStream <= MaxStreams
    /\ PQCommit(PQEnqueue([PQWorld EXCEPT !.streamState[nextStream] = "live"],
                          nextStream))
    /\ nextStream' = nextStream + 1
    /\ lastOp' = "enqueue"
    /\ UNCHANGED <<clearMark, cleared, erroredAs>>

\* A live stream emits "audio".
StreamAudio(s) ==
    /\ streamState[s] = "live"
    /\ entries[s].audioChunks < MaxChunks
    /\ PQCommit(OnStreamAudio(PQWorld, s))
    /\ lastOp' = "audio"
    /\ UNCHANGED <<nextStream, clearMark, cleared, erroredAs>>

\* A live stream emits "end" and detaches its listeners.
StreamEnd(s) ==
    /\ streamState[s] = "live"
    /\ PQCommit(OnStreamEnd([PQWorld EXCEPT !.streamState[s] = "ended"], s))
    /\ lastOp' = "end"
    /\ UNCHANGED <<nextStream, clearMark, cleared, erroredAs>>

\* A live stream emits "error" and detaches its listeners.
StreamError(s) ==
    /\ streamState[s] = "live"
    /\ PQCommit(OnStreamError([PQWorld EXCEPT !.streamState[s] = "errored"], s))
    /\ erroredAs' = [erroredAs EXCEPT ![s] =
          IF currentEntry = s THEN "current"
          ELSE IF \E i \in 1..Len(queue) : queue[i] = s THEN "pending"
          ELSE "gone"]
    /\ lastOp' = "error"
    /\ UNCHANGED <<nextStream, clearMark, cleared>>

\* The player finishes its resource, or a deferred stop notification arrives.
SenderIdle ==
    /\ senderPlaying \/ idlePending
    /\ PQCommit(OnSenderIdle(
          IF idlePending THEN [PQWorld EXCEPT !.idlePending = FALSE]
          ELSE [PQWorld EXCEPT !.senderPlaying = FALSE]))
    /\ lastOp' = "idle"
    /\ UNCHANGED <<nextStream, clearMark, cleared, erroredAs>>

\* clear() (barge-in).
Clear ==
    /\ \E sync \in BOOLEAN : PQCommit(PQClear(PQWorld, sync))
    /\ clearMark' = [s \in Streams |->
                        IF s < nextStream /\ clearMark[s] = -1
                        THEN Len(senderLog) ELSE clearMark[s]]
    /\ cleared' = cleared \cup {queue[i] : i \in 1..Len(queue)}
                          \cup ({currentEntry} \ {NoEntry})
    /\ lastOp' = "clear"
    /\ UNCHANGED <<nextStream, erroredAs>>

PQNext ==
    \/ Enqueue
    \/ \E s \in Streams : StreamAudio(s)
    \/ \E s \in Streams : StreamEnd(s)
    \/ \E s \in Streams : StreamError(s)
    \/ SenderIdle
    \/ Clear

\* ------------------------------------------------------------- VoiceSession

\* start() has wired the engine, receiver and sender listeners and neither
\* engine.stop() nor the dispose() calls of stop() have removed them yet.
Wired == sessionPc \in {"running", "stop-vads", "stop-engine"}

\* The objects one VoiceSession handler touches, with counters of the calls
\* the handler makes (all zero when the handler starts).
VSWorld ==
    [state |-> sessionState, passthrough |-> activePassthrough,
     speaking |-> isBotSpeaking, senderPlaying |-> senderPlaying,
     idlePending |-> idlePending, interrupted |-> interrupted,
     userVads |-> userVads, liveVads |-> liveVads,
     activeSpeakers |-> activeSpeakers,
     interrupts |-> 0, turnEnds |-> 0, emits |-> 0,
     fedVad |-> FALSE, fedEngine |-> FALSE]

\* The record kept of a handled event.
Observed(kind, src, from, passed, w) ==
    [kind |-> kind, src |-> src, from |-> from, passed |-> passed,
     fedVad |-> w.fedVad, fedEngine |-> w.fedEngine,
     interrupts |-> w.interrupts, turnEnds |-> w.turnEnds, emits |-> w.emits]

VSCommit(w) ==
    /\ sessionState' = w.state
    /\ activePassthrough' = w.passthrough
    /\ isBotSpeaking' = w.speaking
    /\ senderPlaying' = w.senderPlaying
    /\ idlePending' = w.idlePending
    /\ interrupted' = w.interrupted
    /\ userVads' = w.userVads
    /\ liveVads' = w.liveVads
    /\ activeSpeakers' = w.activeSpeakers
    /\ UNCHANGED notSession

\* VoiceSession.endCurrentStream.
VSEndCurrentStream(w) == [w EXCEPT !.passthrough = FALSE]

\* engine.on("audio-out"): state, echo flag, PassThrough opened on demand
\* (sender.createPassthrough starts the player), chunk written.
VSOnAudioOut(w) ==
    LET w1 == [w EXCEPT !.state = "speaking", !.speaking = TRUE]
    IN  IF ~w1.passthrough
        THEN [w1 EXCEPT !.passthrough = TRUE, !.senderPlaying = TRUE]
        ELSE w1

\* engine.on("turn-end").
VSOnTurnEnd(w) ==
    LET w1 == VSEndCurrentStream([w EXCEPT !.turnEnds = @ + 1])
    IN  IF w1.state = "speaking" THEN [w1 EXCEPT !.state = "listening"] ELSE w1

\* engine.on("transcript-in").
VSOnTranscriptIn(w) ==
    LET w1 == IF w.state # "speaking" THEN [w EXCEPT !.state = "processing"] ELSE w
    IN  [w1 EXCEPT !.emits = @ + 1]

\* engine.on("transcript-out") and engine.on("error"): re-emitted by the session.
VSReEmit(w) == [w EXCEPT !.emits = @ + 1]

\* The session's handler of an engine event.
VSOnEngineEvent(w, ev) ==
    CASE ev = "audio-out"      -> VSOnAudioOut(w)
      [] ev = "turn-end"       -> VSOnTurnEnd(w)
      [] ev = "transcript-in"  -> VSOnTranscriptIn(w)
      [] OTHER                 -> VSReEmit(w)

EngineEvents == {"audio-out", "turn-end", "transcript-in", "transcript-out", "error"}

\* sender.on("idle") of the session.
VSOnSenderIdle(w) ==
    IF w.state = "speaking"
    THEN [w EXCEPT !.state = "listening", !.speaking = FALSE]
    ELSE w

\* AudioSender.stop as the session sees it: the idle report of a playing
\* player reaches the session's listener inside the call or on a later tick.
VSSenderStop(w, sync) ==
    IF ~w.senderPlaying THEN w
    ELSE IF sync THEN VSOnSenderIdle([w EXCEPT !.senderPlaying = FALSE])
    ELSE [w EXCEPT !.senderPlaying = FALSE, !.idlePending = TRUE]

\* engine.interrupt(): the pipeline engine sets its interrupted flag, the
\* speech-to-speech engine asks the provider to cancel the response.
EngineInterrupt(w) ==
    [w EXCEPT !.interrupts = @ + 1,
              !.interrupted = IF engineMode = "pipeline" THEN TRUE ELSE @]

\* A handleBargeIn that stops playback but never tells the engine.
VSHandleBargeInNoInterrupt(w, sync) ==
    LET w1 == VSSenderStop(VSEndCurrentStream(w), sync)
    IN  [w1 EXCEPT !.speaking = FALSE, !.state = "listening"]

\* VoiceSession.handleBargeIn.
VSHandleBargeIn(w, sync) ==
    LET w1 == VSSenderStop(VSEndCurrentStream(EngineInterrupt(w)), sync)
    IN  [w1 EXCEPT !.speaking = FALSE, !.state = "listening"]

\* audioReceiver.on("user-speaking-start").
VSOnSpeakingStart(w, u, sync) ==
    LET w1 == [w EXCEPT !.activeSpeakers = @ \cup {u}]
    IN  IF bargeIn /\ w1.state = "speaking" THEN VSHandleBargeIn(w1, sync) ELSE w1

\* audioReceiver.on("user-speaking-stop").
VSOnSpeakingStop(w, u) == [w EXCEPT !.activeSpeakers = @ \ {u}]

\* A packet handler that keeps frames from the engine while the bot speaks.
VSOnPacketGated(w, u, suppress) ==
    IF echoSuppression /\ suppress THEN w
    ELSE [w EXCEPT !.userVads = @ \cup {u}, !.liveVads = @ \cup {u},
                   !.fedVad = TRUE, !.fedEngine = (w.state # "speaking")]

\* audioReceiver.on("packet"); suppress is what shouldSuppress returns for
\* the frame (it depends on the frame's energy and on the clock).
VSOnPacket(w, u, suppress) ==
    IF echoSuppression /\ suppress THEN w
    ELSE [w EXCEPT !.userVads = @ \cup {u}, !.liveVads = @ \cup {u},
                   !.fedVad = TRUE, !.fedEngine = TRUE]

\* vad.on("speech-end") registered by getOrCreateVad; starts tells whether
\* the pipeline engine's endOfSpeech begins processUtterance, which clears
\* the interrupted flag.
VSOnVadSpeechEnd(w, starts) ==
    LET w1 == IF engineMode = "pipeline" /\ starts
              THEN [w EXCEPT !.interrupted = FALSE] ELSE w
    IN  IF w1.state = "listening" THEN [w1 EXCEPT !.state = "processing"] ELSE w1

\* ------------------------------------------------------ SpeechToSpeechEngine

ProviderEvents ==
    {"audio", "transcript-in", "transcript-out", "interrupted", "turn-end", "error"}

\* attachSessionEvents: the engine events emitted for one provider event.
S2sEmits(ev) ==
    CASE ev = "audio"          -> <<"audio-out">>
      [] ev = "transcript-in"  -> <<"transcript-in">>
      [] ev = "transcript-out" -> <<"transcript-out">>
      [] ev = "interrupted"    -> <<"transcript-out">>
      [] ev = "turn-end"       -> <<>>
      [] OTHER                 -> <<"error">>

RECURSIVE VSDeliver(_, _)
VSDeliver(w, evs) ==
    IF evs = <<>> THEN w
    ELSE VSDeliver(VSOnEngineEvent(w, Head(evs)), Tail(evs))

\* ---- actions of the session specification

NoEvent ==
    [kind |-> "none", src |-> "none", from |-> "idle", passed |-> FALSE,
     fedVad |-> FALSE, fedEngine |-> FALSE, interrupts |-> 0, turnEnds |-> 0,
     emits |-> 0]

\* The session's variables while another component is explored.
VSIdle ==
    /\ sessionState = "idle"
    /\ activePassthrough = FALSE
    /\ sessionPc = "new"
    /\ userVads = {}
    /\ liveVads = {}
    /\ disposing = {}
    /\ activeSpeakers = {}
    /\ activeStreams = {}
    /\ bargeIn = TRUE
    /\ echoSuppression = TRUE
    /\ engineMode = "pipeline"
    /\ interrupted = FALSE
    /\ lastEv = NoEvent

\* A constructed session, for every configuration and engine.
VSInit ==
    /\ sessionState = "idle"
    /\ activePassthrough = FALSE
    /\ sessionPc = "new"
    /\ userVads = {}
    /\ liveVads = {}
    /\ disposing = {}
    /\ activeSpeakers = {}
    /\ activeStreams = {}
    /\ bargeIn \in BOOLEAN
    /\ echoSuppression \in BOOLEAN
    /\ engineMode \in {"pipeline", "speech-to-speech"}
    /\ interrupted = FALSE
    /\ lastEv = NoEvent

vsConfig == <<bargeIn, echoSuppression, engineMode>>

\* start() succeeds: listeners attached, state listening.
VSStart ==
    /\ sessionPc = "new"
    /\ sessionPc' = "running"
    /\ sessionState' = "listening"
    /\ lastEv' = Observed("start", "session", sessionState, FALSE, VSWorld)
    /\ UNCHANGED <<activePassthrough, userVads, liveVads, disposing,
                   activeSpeakers, activeStreams, interrupted, vsConfig, shared,
                   notSession>>

\* The pipeline engine emits an event (audio-out only while not interrupted).
EngineEvent(ev) ==
    /\ engineMode = "pipeline"
    /\ Wired
    /\ ev = "audio-out" => ~interrupted
    /\ LET w == VSOnEngineEvent(VSWorld, ev)
       IN  /\ VSCommit(w)
           /\ lastEv' = Observed(ev, "engine", sessionState, FALSE, w)
    /\ UNCHANGED <<sessionPc, disposing, activeStreams, vsConfig>>

\* The provider session of the speech-to-speech engine emits an event; its
\* listeners are removed by close(), which engine.stop() calls first.
ProviderEvent(ev) ==
    /\ engineMode = "speech-to-speech"
    /\ sessionPc \in {"running", "stop-vads"}
    /\ LET w == VSDeliver(VSWorld, S2sEmits(ev))
       IN  /\ VSCommit(w)
           /\ lastEv' = Observed(ev, "provider", sessionState, FALSE, w)
    /\ UNCHANGED <<sessionPc, disposing, activeStreams, vsConfig>>

\* The player reports idle to the session.
VSSenderIdle ==
    /\ Wired
    /\ senderPlaying \/ idlePending
    /\ LET w0 == IF idlePending THEN [VSWorld EXCEPT !.idlePending = FALSE]
                 ELSE [VSWorld EXCEPT !.senderPlaying = FALSE]
           w  == VSOnSenderIdle(w0)
       IN  /\ VSCommit(w)
           /\ lastEv' = Observed("sender-idle", "sender", sessionState, FALSE, w)
    /\ UNCHANGED <<sessionPc, disposing, activeStreams, vsConfig>>

\* The receiver emits a decoded packet of user u.
ReceiverPacket(u, suppress) ==
    /\ Wired
    /\ u \in activeStreams
    /\ LET w == VSOnPacket(VSWorld, u, suppress)
       IN  /\ VSCommit(w)
           /\ lastEv' = Observed("packet", "receiver", sessionState,
                                 ~(echoSuppression /\ suppress), w)
    /\ UNCHANGED <<sessionPc, disposing, activeStreams, vsConfig>>

\* The receiver sees user u start speaking (part_001:50-57).
SpeakingStart(u, sync) ==
    /\ Wired
    /\ u \notin activeStreams
    /\ activeStreams' = activeStreams \cup {u}
    /\ LET w == VSOnSpeakingStart(VSWorld, u, sync)
       IN  /\ VSCommit(w)
           /\ lastEv' = Observed("user-speaking-start", "receiver",
                                 sessionState, FALSE, w)
    /\ UNCHANGED <<sessionPc, disposing, vsConfig>>

\* The receiver's stream of user u ends (part_001:77-80).
SpeakingStop(u) ==
    /\ Wired
    /\ u \in activeStreams
    /\ activeStreams' = activeStreams \ {u}
    /\ LET w == VSOnSpeakingStop(VSWorld, u)
       IN  /\ VSCommit(w)
           /\ lastEv' = Observed("user-speaking-stop", "receiver",
                                 sessionState, FALSE, w)
    /\ UNCHANGED <<sessionPc, disposing, vsConfig>>

\* A VAD that has not been disposed emits speech-end.
VadSpeechEnd(u, starts) ==
    /\ u \in liveVads
    /\ LET w == VSOnVadSpeechEnd(VSWorld, starts)
       IN  /\ VSCommit(w)
           /\ lastEv' = Observed("speech-end", "vad", sessionState, FALSE, w)
    /\ UNCHANGED <<sessionPc, disposing, activeStreams, vsConfig>>

\* stop(), up to its first await: state idle, stream ended, VAD disposals begun.
StopBegin ==
    /\ sessionPc = "running"
    /\ sessionPc' = "stop-vads"
    /\ disposing' = userVads
    /\ LET w == VSEndCurrentStream([VSWorld EXCEPT !.state = "idle"])
       IN  /\ VSCommit(w)
           /\ lastEv' = Observed("stop", "session", sessionState, FALSE, w)
    /\ UNCHANGED <<activeStreams, vsConfig>>

\* stop() after the VAD disposals: maps cleared, engine.stop() called (the
\* pipeline engine sets interrupted before its own awaits).
StopVadsDone ==
    /\ sessionPc = "stop-vads"
    /\ sessionPc' = "stop-engine"
    /\ disposing' = {}
    /\ LET w == [VSWorld EXCEPT !.liveVads = @ \ disposing, !.userVads = {},
                                !.activeSpeakers = {},
                                !.interrupted = IF engineMode = "pipeline"
                                                THEN TRUE ELSE @]
       IN  /\ VSCommit(w)
           /\ lastEv' = Observed("stop", "session", sessionState, FALSE, w)
    /\ UNCHANGED <<activeStreams, vsConfig>>

\* stop() after engine.stop() (which removed the engine's listeners):
\* receiver and sender disposed, discordConn.leave() called.
StopEngineDone(sync) ==
    /\ sessionPc = "stop-engine"
    /\ sessionPc' = "stop-leave"
    /\ activeStreams' = {}
    /\ LET w == VSSenderStop(VSWorld, sync)
       IN  /\ VSCommit([w EXCEPT !.idlePending = FALSE])
           /\ lastEv' = Observed("stop", "session", sessionState, FALSE, w)
    /\ UNCHANGED <<disposing, vsConfig>>

\* stop() after leave(): echo suppressor reset, "stopped" emitted, listeners removed.
StopLeaveDone ==
    /\ sessionPc = "stop-leave"
    /\ sessionPc' = "stopped"
    /\ LET w == [VSWorld EXCEPT !.speaking = FALSE]
       IN  /\ VSCommit(w)
           /\ lastEv' = Observed("stop", "session", sessionState, FALSE, w)
    /\ UNCHANGED <<disposing, activeStreams, vsConfig>>

VSNext ==
    \/ VSStart
    \/ \E ev \in EngineEvents : EngineEvent(ev)
    \/ \E ev \in ProviderEvents : ProviderEvent(ev)
    \/ VSSenderIdle
    \/ \E u \in Users, suppress \in BOOLEAN : ReceiverPacket(u, suppress)
    \/ \E u \in Users, sync \in BOOLEAN : SpeakingStart(u, sync)
    \/ \E u \in Users : SpeakingStop(u)
    \/ \E u \in Users, starts \in BOOLEAN : VadSpeechEnd(u, starts)
    \/ StopBegin
    \/ StopVadsDone
    \/ \E sync \in BOOLEAN : StopEngineDone(sync)
    \/ StopLeaveDone

\* ----------------------------------------------------------- SessionManager

SessionIds == 1..MaxJoins
NoSession == 0
JoinCalls == 1..MaxJoins
LeaveCalls == 1..MaxLeaves

SMInit ==
    /\ sessions = NoSession
    /\ nextSession = 1
    /\ startPc = [s \in SessionIds |-> "none"]
    /\ stopPc = [s \in SessionIds |-> "none"]
    /\ joinPc = [j \in JoinCalls |-> "idle"]
    /\ joinSess = [j \in JoinCalls |-> NoSession]
    /\ leavePc = [l \in LeaveCalls |-> "idle"]
    /\ leaveSess = [l \in LeaveCalls |-> NoSession]
    /\ summaries = 0

\* join, from `new VoiceSession` to the await of start(): the session is
\* stored in the map and its start() is called.
SMCreateAndStart(j) ==
    /\ sessions' = nextSession
    /\ startPc' = [startPc EXCEPT ![nextSession] = "pending"]
    /\ nextSession' = nextSession + 1
    /\ joinPc' = [joinPc EXCEPT ![j] = "await-start"]
    /\ joinSess' = [joinSess EXCEPT ![j] = nextSession]

\* leave with an entry in the map, up to the point it leaves the function:
\* the entry is deleted (line 96), then session.engine.getConversationHistory()
\* is called (line 99). Neither the VoiceEngine interface nor PipelineEngine
\* nor SpeechToSpeechEngine, the two classes createEngine returns, defines
\* that method, so the call throws a TypeError: leave rejects there, and
\* session.stop() (line 102) and dispatchSessionSummary (line 108) are not
\* reached. stopPc and summaries are therefore left as they are.
SMDeleteAndThrow(s) ==
    /\ sessions' = NoSession
    /\ UNCHANGED <<stopPc, summaries>>

\* join(g, c) is called: with an entry in the map it awaits leave(g), whose
\* rejection it does not catch, so it rejects in turn before creating a
\* session; without an entry it creates and starts the session in the same
\* tick.
JoinCall(j) ==
    /\ joinPc[j] = "idle"
    /\ IF sessions # NoSession
       THEN /\ SMDeleteAndThrow(sessions)
            /\ joinPc' = [joinPc EXCEPT ![j] = "failed"]
            /\ joinSess' = [joinSess EXCEPT ![j] = sessions]
            /\ UNCHANGED <<nextSession, startPc>>
       ELSE /\ SMCreateAndStart(j)
            /\ UNCHANGED <<stopPc, summaries>>
    /\ UNCHANGED <<leavePc, leaveSess, notManager>>

\* join resumes after start() resolved.
JoinStartOk(j) ==
    /\ joinPc[j] = "await-start"
    /\ startPc[joinSess[j]] = "done"
    /\ joinPc' = [joinPc EXCEPT ![j] = "done"]
    /\ UNCHANGED <<sessions, nextSession, startPc, stopPc, summaries, joinSess,
                   leavePc, leaveSess, notManager>>

\* join resumes after start() rejected: this.sessions.delete(guildId), rethrow.
JoinStartFailed(j) ==
    /\ joinPc[j] = "await-start"
    /\ startPc[joinSess[j]] = "failed"
    /\ sessions' = NoSession
    /\ joinPc' = [joinPc EXCEPT ![j] = "failed"]
    /\ UNCHANGED <<nextSession, startPc, stopPc, summaries, joinSess, leavePc,
                   leaveSess, notManager>>

\* leave(g) is called: without an entry it warns and returns; with one it
\* deletes the entry and rejects at the history snapshot.
LeaveCall(l) ==
    /\ leavePc[l] = "idle"
    /\ IF sessions = NoSession
       THEN /\ leavePc' = [leavePc EXCEPT ![l] = "done"]
            /\ UNCHANGED <<sessions, stopPc, summaries, leaveSess>>
       ELSE /\ SMDeleteAndThrow(sessions)
            /\ leavePc' = [leavePc EXCEPT ![l] = "failed"]
            /\ leaveSess' = [leaveSess EXCEPT ![l] = sessions]
    /\ UNCHANGED <<nextSession, startPc, joinPc, joinSess, notManager>>

\* A session's start() resolves.
SessionStartOk(s) ==
    /\ startPc[s] = "pending"
    /\ startPc' = [startPc EXCEPT ![s] = "done"]
    /\ UNCHANGED <<sessions, nextSession, stopPc, summaries, joinPc, joinSess,
                   leavePc, leaveSess, notManager>>

\* A session's start() rejects (transport join or engine start failed).
SessionStartFails(s) ==
    /\ startPc[s] = "pending"
    /\ startPc' = [startPc EXCEPT ![s] = "failed"]
    /\ UNCHANGED <<sessions, nextSession, stopPc, summaries, joinPc, joinSess,
                   leavePc, leaveSess, notManager>>

SMNext ==
    \/ \E j \in JoinCalls : JoinCall(j)
    \/ \E j \in JoinCalls : JoinStartOk(j)
    \/ \E j \in JoinCalls : JoinStartFailed(j)
    \/ \E l \in LeaveCalls : LeaveCall(l)
    \/ \E s \in SessionIds : SessionStartOk(s)
    \/ \E s \in SessionIds : SessionStartFails(s)

\* ----------------------------------------------------------- PipelineEngine

TurnIds == 1..MaxTurns

NoTurn == [kind |-> "none", phase |-> "none", residual |-> FALSE,
           tokens |-> FALSE, sentences |-> 0, hit |-> FALSE, spoken |-> 0,
           ended |-> FALSE, carried |-> FALSE, dropped |-> FALSE]
NoTts == [state |-> "none", turn |-> 0, sentence |-> 0, late |-> FALSE]
NoEmit == [evs |-> <<>>, turn |-> 0, sentence |-> 0, late |-> FALSE, after |-> 0,
           ended |-> FALSE]

PEInit ==
    /\ userAudioBuffers = [u \in Users |-> 0]
    /\ discarded = [u \in Users |-> FALSE]
    /\ isProcessing = FALSE
    /\ turns = [r \in TurnIds |-> NoTurn]
    /\ nextTurn = 1
    /\ tts = [s \in Streams |-> NoTts]
    /\ nextTts = 1
    /\ lastEmit = NoEmit

\* this.emit(...) calls of one step: the events, the turn and sentence they
\* belong to, whether interrupt() had hit that turn before, the highest
\* sentence of the turn a chunk of which had been emitted before, and whether
\* the turn's turn-end had been emitted before.
Emit(evs, r, k) ==
    [evs |-> evs, turn |-> r, sentence |-> k, late |-> turns[r].hit,
     after |-> turns[r].spoken, ended |-> turns[r].ended]

\* synthesizeAndEmit(sentence) of turn r: a new TTS stream with its listeners.
SynthesizeAndEmit(r) ==
    [tts EXCEPT ![nextTts] =
        [state |-> "live", turn |-> r, sentence |-> turns[r].sentences + 1,
         late |-> turns[r].hit]]

\* feedAudio(u, pcm): the frame is pushed on u's buffer list.
FeedAudio(u) ==
    /\ userAudioBuffers[u] < MaxFrames
    /\ userAudioBuffers' = [userAudioBuffers EXCEPT ![u] = @ + 1]
    /\ UNCHANGED <<discarded, isProcessing, turns, nextTurn, tts, nextTts, lastEmit,
                   interrupted, notPipeline>>

\* endOfSpeech(u) without the isProcessing check.
EndOfSpeechNoLock(u) ==
    /\ nextTurn <= MaxTurns
    /\ userAudioBuffers' = [userAudioBuffers EXCEPT ![u] = 0]
    /\ discarded' = [discarded EXCEPT ![u] = FALSE]
    /\ IF userAudioBuffers[u] = 0
       THEN UNCHANGED <<isProcessing, turns, nextTurn, interrupted>>
       ELSE /\ isProcessing' = TRUE
            /\ interrupted' = FALSE
            /\ turns' = [turns EXCEPT ![nextTurn] =
                  [NoTurn EXCEPT !.kind = "utterance", !.phase = "stt",
                                 !.carried = discarded[u]]]
            /\ nextTurn' = nextTurn + 1
    /\ UNCHANGED <<tts, nextTts, lastEmit, notPipeline>>

\* endOfSpeech(u): returns while processing; otherwise takes u's buffers and,
\* unless they are empty, starts processUtterance, which sets the lock, resets
\* interrupted and awaits the transcription.
EndOfSpeech(u) ==
    /\ nextTurn <= MaxTurns
    /\ IF isProcessing
       THEN /\ discarded' = [discarded EXCEPT ![u] = userAudioBuffers[u] > 0]
            /\ UNCHANGED <<userAudioBuffers, isProcessing, turns, nextTurn,
                           interrupted>>
       ELSE /\ userAudioBuffers' = [userAudioBuffers EXCEPT ![u] = 0]
            /\ discarded' = [discarded EXCEPT ![u] = FALSE]
            /\ IF userAudioBuffers[u] = 0
               THEN UNCHANGED <<isProcessing, turns, nextTurn, interrupted>>
               ELSE /\ isProcessing' = TRUE
                    /\ interrupted' = FALSE
                    /\ turns' = [turns EXCEPT ![nextTurn] =
                          [NoTurn EXCEPT !.kind = "utterance", !.phase = "stt",
                                         !.carried = discarded[u]]]
                    /\ nextTurn' = nextTurn + 1
    /\ UNCHANGED <<tts, nextTts, lastEmit, notPipeline>>

\* transcribeWithFallback settles for turn r: with text, transcript-in is
\* emitted and generateAndSpeak begins; with an empty transcript the turn
\* ends; a rejection is emitted as error. The lock is released when the
\* turn does not go on.
SttDone(r, outcome) ==
    /\ turns[r].phase = "stt"
    /\ turns' = [turns EXCEPT ![r].phase = IF outcome = "text" THEN "llm" ELSE "done"]
    /\ isProcessing' = (outcome = "text")
    /\ lastEmit' = CASE outcome = "text"  -> Emit(<<"transcript-in">>, r, 0)
                     [] outcome = "empty" -> lastEmit
                     [] outcome = "fail"  -> Emit(<<"error">>, r, 0)
    /\ UNCHANGED <<userAudioBuffers, discarded, nextTurn, tts, nextTts, interrupted,
                   notPipeline>>

\* injectText(u, text): generateAndSpeak begins, without the lock and without
\* touching interrupted.
InjectText ==
    /\ nextTurn <= MaxTurns
    /\ turns' = [turns EXCEPT ![nextTurn] =
          [NoTurn EXCEPT !.kind = "inject", !.phase = "llm"]]
    /\ nextTurn' = nextTurn + 1
    /\ UNCHANGED <<userAudioBuffers, discarded, isProcessing, tts, nextTts, lastEmit,
                   interrupted, notPipeline>>

\* The token callback of turn r: dropped while interrupted; otherwise the
\* token is kept and fed to the splitter, which either completes a sentence
\* (handed to synthesizeAndEmit) or leaves text in its buffer.
LlmToken(r, completes) ==
    /\ turns[r].phase = "llm"
    /\ completes /\ ~interrupted => nextTts <= MaxStreams
    /\ IF interrupted
       THEN /\ turns' = [turns EXCEPT ![r].dropped = TRUE]
            /\ UNCHANGED <<tts, nextTts>>
       ELSE IF completes
            THEN /\ tts' = SynthesizeAndEmit(r)
                 /\ nextTts' = nextTts + 1
                 /\ turns' = [turns EXCEPT ![r].tokens = TRUE,
                                           ![r].residual = FALSE,
                                           ![r].sentences = @ + 1]
            ELSE /\ turns' = [turns EXCEPT ![r].tokens = TRUE,
                                           ![r].residual = TRUE]
                 /\ UNCHANGED <<tts, nextTts>>
    /\ UNCHANGED <<userAudioBuffers, discarded, isProcessing, nextTurn, lastEmit,
                   interrupted, notPipeline>>

\* streamAgentResponse resolves for turn r: the splitter is flushed and the
\* rest synthesized unless interrupted, transcript-out is emitted if any
\* token was kept, then turn-end; processUtterance releases the lock.
LlmEnd(r) ==
    /\ turns[r].phase = "llm"
    /\ turns[r].residual /\ ~interrupted => nextTts <= MaxStreams
    /\ LET flush == turns[r].residual /\ ~interrupted
       IN /\ tts' = IF flush THEN SynthesizeAndEmit(r) ELSE tts
          /\ nextTts' = IF flush THEN nextTts + 1 ELSE nextTts
          /\ turns' = [turns EXCEPT ![r].phase = "done",
                                    ![r].residual = FALSE,
                                    ![r].ended = TRUE,
                                    ![r].sentences = IF flush THEN @ + 1 ELSE @]
    /\ lastEmit' = Emit(IF turns[r].tokens
                        THEN <<"transcript-out", "turn-end">>
                        ELSE <<"turn-end">>, r, 0)
    /\ isProcessing' = IF turns[r].kind = "utterance" THEN FALSE ELSE isProcessing
    /\ UNCHANGED <<userAudioBuffers, discarded, nextTurn, interrupted, notPipeline>>

\* streamAgentResponse rejects for turn r: processUtterance emits error and
\* releases the lock; injectText passes the rejection to its caller.
LlmFails(r) ==
    /\ turns[r].phase = "llm"
    /\ turns' = [turns EXCEPT ![r].phase = "done"]
    /\ lastEmit' = IF turns[r].kind = "utterance"
                   THEN Emit(<<"error">>, r, 0)
                   ELSE lastEmit
    /\ isProcessing' = IF turns[r].kind = "utterance" THEN FALSE ELSE isProcessing
    /\ UNCHANGED <<userAudioBuffers, discarded, nextTurn, tts, nextTts, interrupted,
                   notPipeline>>

\* A TTS stream delivers a chunk: the listener emits audio-out unless
\* interrupted is set at that moment.
TtsAudio(s) ==
    /\ tts[s].state = "live"
    /\ IF interrupted
       THEN UNCHANGED <<lastEmit, turns>>
       ELSE /\ lastEmit' = Emit(<<"audio-out">>, tts[s].turn, tts[s].sentence)
            /\ turns' = [turns EXCEPT ![tts[s].turn].spoken =
                            IF tts[s].sentence > @ THEN tts[s].sentence ELSE @]
    /\ UNCHANGED <<userAudioBuffers, discarded, isProcessing, nextTurn, tts, nextTts,
                   interrupted, notPipeline>>

\* A TTS stream ends; the engine has no listener for it.
TtsEnd(s) ==
    /\ tts[s].state = "live"
    /\ tts' = [tts EXCEPT ![s].state = "ended"]
    /\ UNCHANGED <<userAudioBuffers, discarded, isProcessing, turns, nextTurn, nextTts,
                   lastEmit, interrupted, notPipeline>>

\* A TTS stream fails: the listener re-emits the error.
TtsError(s) ==
    /\ tts[s].state = "live"
    /\ tts' = [tts EXCEPT ![s].state = "ended"]
    /\ lastEmit' = Emit(<<"error">>, tts[s].turn, tts[s].sentence)
    /\ UNCHANGED <<userAudioBuffers, discarded, isProcessing, turns, nextTurn, nextTts,
                   interrupted, notPipeline>>

\* A reply is in progress: its agent response is streaming or one of its TTS
\* streams is still live.
Replying(r) ==
    \/ turns[r].phase = "llm"
    \/ \E s \in Streams : tts[s].state = "live" /\ tts[s].turn = r

\* interrupt(): sets the flag, nothing else. The turns it hits are noted.
Interrupt ==
    /\ interrupted' = TRUE
    /\ turns' = [r \in TurnIds |->
                   IF Replying(r) THEN [turns[r] EXCEPT !.hit = TRUE] ELSE turns[r]]
    /\ UNCHANGED <<userAudioBuffers, discarded, isProcessing, nextTurn, tts, nextTts,
                   lastEmit, notPipeline>>

PENext ==
    \/ \E u \in Users : FeedAudio(u)
    \/ \E u \in Users : EndOfSpeech(u)
    \/ \E r \in TurnIds, outcome \in {"text", "empty", "fail"} : SttDone(r, outcome)
    \/ InjectText
    \/ \E r \in TurnIds, completes \in BOOLEAN : LlmToken(r, completes)
    \/ \E r \in TurnIds : LlmEnd(r)
    \/ \E r \in TurnIds : LlmFails(r)
    \/ \E s \in Streams : TtsAudio(s)
    \/ \E s \in Streams : TtsEnd(s)
    \/ \E s \in Streams : TtsError(s)
    \/ Interrupt

\* -------------------------------------------------------- GeminiLiveSession

SocketIds == 1..MaxSockets
NoSocket == 0
NoTimer == -1
Unset == -1
NoSetup == [sent |-> FALSE, history |-> <<>>]
NoSock == [state |-> "none", setup |-> NoSetup, closedBy |-> "none"]
NoGem == [kind |-> "none", sock |-> NoSocket, rotation |-> FALSE, errors |-> 0,
          setup |-> NoSetup, conv |-> <<>>, timer |-> NoTimer,
          oldClosed |-> FALSE, sent |-> FALSE]

\* The raw durations a configuration may carry.
RawDurations == {Unset, 0, 30000, 60000, 600000}

\* resolveS2s: sessionDurationMs ?? 540_000.
ResolveSessionDurationMs(raw) == IF raw = Unset THEN DefaultSessionDurationMs ELSE raw

\* scheduleRotation: Math.max(sessionDurationMs - BUFFER, 0).
RotateAfterMs(sessionDurationMs) ==
    IF sessionDurationMs - GEMINI_SESSION_ROTATION_BUFFER_MS > 0
    THEN sessionDurationMs - GEMINI_SESSION_ROTATION_BUFFER_MS
    ELSE 0

\* Array.slice(-n): the last n elements.
LastN(s, n) == IF Len(s) <= n THEN s ELSE SubSeq(s, Len(s) - n + 1, Len(s))

\* ConversationContext.addTurn: push, then prune to maxTurns.
\* prune: shift while the array is longer than maxTurns.
RECURSIVE PrunePop(_, _)
PrunePop(turnsNow, maxTurns) ==
    IF Len(turnsNow) > maxTurns
    THEN PrunePop(SubSeq(turnsNow, 1, Len(turnsNow) - 1), maxTurns)
    ELSE turnsNow

RECURSIVE Prune(_, _)
Prune(turnsNow, maxTurns) ==
    IF Len(turnsNow) > maxTurns THEN Prune(Tail(turnsNow), maxTurns)
    ELSE turnsNow

AddTurn(turnsNow, turn, maxTurns) == Prune(Append(turnsNow, turn), maxTurns)

\* One line of the system instruction: "User: ..." or "Assistant: ...".
HistoryLine(t) ==
    <<IF t.role = "user" THEN "User" ELSE "Assistant", t.content>>

\* The history lines of a system instruction built from the given turns.
FormatHistory(h) == [i \in 1..Len(LastN(h, HistorySlice)) |->
                        HistoryLine(LastN(h, HistorySlice)[i])]

\* buildSystemInstruction: the base text, followed by the last turns of
\* options.conversationHistory when it is not empty.
BuildSystemInstruction == [sent |-> TRUE, history |-> FormatHistory(options)]

GMIdle ==
    /\ conversation = <<>>
    /\ options = <<>>
    /\ rawDurationMs = Unset
    /\ ws = NoSocket
    /\ isRotating = FALSE
    /\ rotationTimer = NoTimer
    /\ geminiPc = "new"
    /\ oldWs = NoSocket
    /\ sockets = [s \in SocketIds |-> NoSock]
    /\ nextSocket = 1
    /\ hasListeners = FALSE
    /\ lastGem = NoGem

GMInit ==
    /\ conversation = <<>>
    /\ options = <<>>
    /\ rawDurationMs \in RawDurations
    /\ ws = NoSocket
    /\ isRotating = FALSE
    /\ rotationTimer = NoTimer
    /\ geminiPc = "new"
    /\ oldWs = NoSocket
    /\ sockets = [s \in SocketIds |-> NoSock]
    /\ nextSocket = 1
    /\ hasListeners = FALSE
    /\ lastGem = NoGem

\* ws.close() on a socket: it starts closing unless it is closed already.
SocketClose(socks, s, by) ==
    IF s # NoSocket /\ socks[s].state \in {"connecting", "open"}
    THEN [socks EXCEPT ![s].state = "closing", ![s].closedBy = by]
    ELSE socks

\* connect(): this.ws = new WebSocket(url).
NewSocket(socks) == [socks EXCEPT ![nextSocket].state = "connecting"]

\* sendMessage: the frame goes out iff this.ws is open.
CanSend(socks, cur) == cur # NoSocket /\ socks[cur].state = "open"

\* SpeechToSpeechEngine.start: the history is copied into the options and
\* provider.connect creates the session and its first socket.
GeminiStart ==
    /\ geminiPc = "new"
    /\ options' = conversation
    /\ sockets' = NewSocket(sockets)
    /\ ws' = nextSocket
    /\ nextSocket' = nextSocket + 1
    /\ geminiPc' = "connecting"
    /\ lastGem' = [NoGem EXCEPT !.kind = "connect", !.sock = nextSocket]
    /\ UNCHANGED <<conversation, rawDurationMs, isRotating, rotationTimer, oldWs,
                   hasListeners, notGemini>>

\* rotateSession, after its connect() resolved: the old socket is closed and
\* isRotating reset.
RotateDone(socks, old) == SocketClose(socks, old, "rotation")

\* "open" on socket s: sendSetup, scheduleRotation, resolve. The awaiting
\* caller goes on before any other event: start attaches the engine's
\* listeners, rotateSession closes the old socket and resets isRotating.
SocketOpen(s) ==
    /\ sockets[s].state = "connecting"
    /\ LET opened == [sockets EXCEPT ![s].state = "open"]
           sends == CanSend(opened, ws)
           setup == IF sends THEN BuildSystemInstruction ELSE NoSetup
           withSetup == IF sends THEN [opened EXCEPT ![ws].setup = setup] ELSE opened
           delay == RotateAfterMs(ResolveSessionDurationMs(rawDurationMs))
           rotating == geminiPc = "rotating"
       IN /\ rotationTimer' = delay
          /\ sockets' = IF rotating THEN RotateDone(withSetup, oldWs) ELSE withSetup
          /\ isRotating' = IF rotating THEN FALSE ELSE isRotating
          /\ oldWs' = IF rotating THEN NoSocket ELSE oldWs
          /\ geminiPc' = IF geminiPc \in {"connecting", "rotating"} THEN "ready" ELSE geminiPc
          /\ hasListeners' = IF geminiPc = "connecting" THEN TRUE ELSE hasListeners
          /\ lastGem' = [NoGem EXCEPT !.kind = "open", !.sock = s,
                            !.rotation = rotating, !.setup = setup,
                            !.conv = conversation, !.timer = delay,
                            !.oldClosed = rotating /\ sockets'[oldWs] # sockets[oldWs]]
    /\ UNCHANGED <<conversation, options, rawDurationMs, ws, nextSocket, notGemini>>

\* rotateSession closing the old socket when its connect() rejected.
RotateFailedClosesOld(socks, old) == SocketClose(socks, old, "rotation")

\* rotateSession, after its connect() rejected: error is emitted, isRotating
\* reset, and the method returns.
RotateFailed(socks, old) == socks

\* The close listener of a socket: an error event unless isRotating.
CloseEmits(rotatingNow) == IF rotatingNow THEN 0 ELSE 1

\* "error" on a connecting socket s: connect() rejects. The socket's "close"
\* follows, either in the same tick or after the rejection was handled.
SocketFails(s, closeFirst) ==
    /\ sockets[s].state = "connecting"
    /\ LET rotating == geminiPc = "rotating"
           failed == [sockets EXCEPT ![s].state = IF closeFirst THEN "closed" ELSE "closing",
                                     ![s].closedBy = "failed"]
       IN /\ sockets' = IF rotating THEN RotateFailed(failed, oldWs) ELSE failed
          /\ isRotating' = IF rotating THEN FALSE ELSE isRotating
          /\ oldWs' = IF rotating THEN NoSocket ELSE oldWs
          /\ geminiPc' = CASE geminiPc = "rotating" -> "ready"
                           [] geminiPc = "connecting" -> "failed"
                           [] OTHER -> geminiPc
          /\ lastGem' = [NoGem EXCEPT !.kind = "failed", !.sock = s,
                            !.rotation = rotating,
                            !.errors = (IF rotating THEN 1 ELSE 0)
                                       + (IF closeFirst THEN CloseEmits(isRotating) ELSE 0),
                            !.oldClosed = rotating /\ sockets'[oldWs] # sockets[oldWs]]
    /\ UNCHANGED <<conversation, options, rawDurationMs, ws, rotationTimer,
                   nextSocket, hasListeners, notGemini>>

\* "close" on socket s after close() was called on it or its handshake failed.
SocketClosed(s) ==
    /\ sockets[s].state = "closing"
    /\ sockets' = [sockets EXCEPT ![s].state = "closed"]
    /\ lastGem' = [NoGem EXCEPT !.kind = "closed", !.sock = s,
                      !.rotation = sockets[s].closedBy = "rotation",
                      !.errors = CloseEmits(isRotating)]
    /\ UNCHANGED <<conversation, options, rawDurationMs, ws, isRotating,
                   rotationTimer, geminiPc, oldWs, nextSocket, hasListeners,
                   notGemini>>

\* The server or the network closes an open socket.
SocketDropped(s) ==
    /\ sockets[s].state = "open"
    /\ sockets' = [sockets EXCEPT ![s].state = "closed", ![s].closedBy = "server"]
    /\ lastGem' = [NoGem EXCEPT !.kind = "dropped", !.sock = s,
                      !.errors = CloseEmits(isRotating)]
    /\ UNCHANGED <<conversation, options, rawDurationMs, ws, isRotating,
                   rotationTimer, geminiPc, oldWs, nextSocket, hasListeners,
                   notGemini>>

\* rotateSession closing the old socket before it opens the new one.
RotateStartBreakFirst(socks, old) == NewSocket(SocketClose(socks, old, "rotation"))

\* rotateSession, up to its await: isRotating is set, the timer cleared, the
\* current socket remembered, and connect() replaces this.ws by a new socket.
RotateStart(socks, old) == NewSocket(socks)

\* The rotation timer fires.
RotationTimerFires ==
    /\ rotationTimer # NoTimer
    /\ nextSocket <= MaxSockets
    /\ isRotating' = TRUE
    /\ rotationTimer' = NoTimer
    /\ oldWs' = ws
    /\ sockets' = RotateStart(sockets, ws)
    /\ ws' = nextSocket
    /\ nextSocket' = nextSocket + 1
    /\ geminiPc' = "rotating"
    /\ lastGem' = [NoGem EXCEPT !.kind = "rotate", !.sock = nextSocket, !.rotation = TRUE]
    /\ UNCHANGED <<conversation, options, rawDurationMs, hasListeners, notGemini>>

\* A transcript arrives on an open socket: the engine's listener adds the
\* turn to its conversation.
Transcript(role) ==
    /\ hasListeners
    /\ \E s \in SocketIds : sockets[s].state = "open"
    /\ Len(conversation) < MaxHistory
    /\ conversation' = AddTurn(conversation,
                               [role |-> role, content |-> Len(conversation) + 1],
                               MaxConversationTurns)
    /\ lastGem' = [NoGem EXCEPT !.kind = "transcript"]
    /\ UNCHANGED <<options, rawDurationMs, ws, isRotating, rotationTimer, geminiPc,
                   oldWs, sockets, nextSocket, hasListeners, notGemini>>

\* sendAudio(pcm): written to this.ws if it is open, dropped otherwise.
SendAudio ==
    /\ geminiPc \in {"ready", "rotating"}
    /\ lastGem' = [NoGem EXCEPT !.kind = "send-audio", !.sock = ws,
                      !.sent = CanSend(sockets, ws)]
    /\ UNCHANGED <<conversation, options, rawDurationMs, ws, isRotating,
                   rotationTimer, geminiPc, oldWs, sockets, nextSocket,
                   hasListeners, notGemini>>

\* close(): the timer is cleared, this.ws closed and dropped, and the
\* listeners removed.
GeminiClose ==
    /\ geminiPc \in {"ready", "rotating"}
    /\ rotationTimer' = NoTimer
    /\ sockets' = SocketClose(sockets, ws, "close")
    /\ ws' = NoSocket
    /\ hasListeners' = FALSE
    /\ geminiPc' = "closed"
    /\ lastGem' = [NoGem EXCEPT !.kind = "close", !.sock = ws]
    /\ UNCHANGED <<conversation, options, rawDurationMs, isRotating, oldWs,
                   nextSocket, notGemini>>

GMNext ==
    \/ GeminiStart
    \/ \E s \in SocketIds : SocketOpen(s)
    \/ \E s \in SocketIds, closeFirst \in BOOLEAN : SocketFails(s, closeFirst)
    \/ \E s \in SocketIds : SocketClosed(s)
    \/ \E s \in SocketIds : SocketDropped(s)
    \/ RotationTimerFires
    \/ \E role \in {"user", "assistant"} : Transcript(role)
    \/ SendAudio
    \/ GeminiClose

\* --------------------------------------------------------- DiscordConnection

ChainIds == 1..MaxChains

DCInit ==
    /\ connection = "none"
    /\ heartbeatTimer = FALSE
    /\ reconnectAttempts = 0
    /\ channelId = FALSE
    /\ connPc = "new"
    /\ chains = [c \in ChainIds |-> "idle"]
    /\ rejoinDelays = <<>>
    /\ gaveUp = FALSE

RECURSIVE Pow2(_)
Pow2(n) == IF n <= 0 THEN 1 ELSE 2 * Pow2(n - 1)

\* 500 * Math.pow(2, attempts - 1)
RejoinDelay(attempts) == 500 * Pow2(attempts - 1)

\* join(channel), up to its awaits: the channel is stored and
\* reconnectAttempts reset; joinVoiceChannel then creates the connection.
DcJoinBegin(attempts) == 0

\* The caller's join(channel).
DcJoin ==
    /\ connPc = "new"
    /\ channelId' = TRUE
    /\ reconnectAttempts' = DcJoinBegin(reconnectAttempts)
    /\ connection' = "connecting"
    /\ connPc' = "joining"
    /\ UNCHANGED <<heartbeatTimer, chains, rejoinDelays, gaveUp, notConnection>>

\* entersState(Ready) resolves for the caller's join: the heartbeat starts.
DcJoinOk ==
    /\ connPc = "joining"
    /\ connection = "connecting"
    /\ connection' = "ready"
    /\ heartbeatTimer' = TRUE
    /\ connPc' = "joined"
    /\ rejoinDelays' = <<>>
    /\ UNCHANGED <<reconnectAttempts, channelId, chains, gaveUp, notConnection>>

\* The caller's join rejects (no such channel, or Ready not reached in time).
DcJoinFails ==
    /\ connPc = "joining"
    /\ connPc' = "failed"
    /\ UNCHANGED <<connection, heartbeatTimer, reconnectAttempts, channelId,
                   chains, rejoinDelays, gaveUp, notConnection>>

\* The connection reports Disconnected: its handler waits for Discord to
\* reconnect by itself.
Disconnected(c) ==
    /\ connection = "ready"
    /\ chains[c] \in {"idle", "done"}
    /\ connection' = "disconnected"
    /\ chains' = [chains EXCEPT ![c] = "heal"]
    /\ UNCHANGED <<heartbeatTimer, reconnectAttempts, channelId, connPc,
                   rejoinDelays, gaveUp, notConnection>>

\* Discord reconnects by itself and Ready is reached.
SelfHeals(c) ==
    /\ chains[c] = "heal"
    /\ connection = "disconnected"
    /\ connection' = "ready"
    /\ reconnectAttempts' = 0
    /\ chains' = [chains EXCEPT ![c] = "done"]
    /\ rejoinDelays' = <<>>
    /\ UNCHANGED <<heartbeatTimer, channelId, connPc, gaveUp, notConnection>>

\* attemptRejoin, up to its first await: it gives up and leaves when the
\* attempts are used up or no channel is known; otherwise it counts the
\* attempt and sleeps.
AttemptRejoin(c) ==
    IF reconnectAttempts >= RECONNECT_MAX_ATTEMPTS \/ ~channelId
    THEN /\ heartbeatTimer' = FALSE
         /\ connection' = "none"
         /\ channelId' = FALSE
         /\ reconnectAttempts' = 0
         /\ chains' = [chains EXCEPT ![c] = "done"]
         /\ gaveUp' = TRUE
         /\ UNCHANGED rejoinDelays
    ELSE /\ reconnectAttempts' = reconnectAttempts + 1
         /\ rejoinDelays' = Append(rejoinDelays, RejoinDelay(reconnectAttempts + 1))
         /\ chains' = [chains EXCEPT ![c] = "sleep"]
         /\ UNCHANGED <<heartbeatTimer, connection, channelId, gaveUp>>

\* Discord does not reconnect by itself: the handler calls attemptRejoin.
SelfHealFails(c) ==
    /\ chains[c] = "heal"
    /\ Len(rejoinDelays) < MaxRejoins
    /\ AttemptRejoin(c)
    /\ UNCHANGED <<connPc, notConnection>>

\* The sleep of attemptRejoin is over: join(this.channelId) is called.
SleepDone(c) ==
    /\ chains[c] = "sleep"
    /\ reconnectAttempts' = DcJoinBegin(reconnectAttempts)
    /\ connection' = IF channelId THEN "connecting" ELSE connection
    /\ chains' = [chains EXCEPT ![c] = "joining"]
    /\ UNCHANGED <<heartbeatTimer, channelId, connPc, rejoinDelays, gaveUp,
                   notConnection>>

\* The join of a rejoin attempt rejects: attemptRejoin is called again.
RejoinFails(c) ==
    /\ chains[c] = "joining"
    /\ Len(rejoinDelays) < MaxRejoins
    /\ AttemptRejoin(c)
    /\ UNCHANGED <<connPc, notConnection>>

\* The join of a rejoin attempt reaches Ready.
RejoinOk(c) ==
    /\ chains[c] = "joining"
    /\ connection = "connecting"
    /\ connection' = "ready"
    /\ heartbeatTimer' = TRUE
    /\ chains' = [chains EXCEPT ![c] = "done"]
    /\ rejoinDelays' = <<>>
    /\ UNCHANGED <<reconnectAttempts, channelId, connPc, gaveUp, notConnection>>

\* The heartbeat finds the connection not ready and calls attemptRejoin.
HeartbeatTick(c) ==
    /\ heartbeatTimer
    /\ connection # "ready"
    /\ chains[c] \in {"idle", "done"}
    /\ Len(rejoinDelays) < MaxRejoins
    /\ AttemptRejoin(c)
    /\ UNCHANGED <<connPc, notConnection>>

\* leave(): the heartbeat is stopped, the connection destroyed.
DcLeave ==
    /\ connPc \in {"joined", "failed"}
    /\ heartbeatTimer' = FALSE
    /\ connection' = "none"
    /\ channelId' = FALSE
    /\ reconnectAttempts' = 0
    /\ UNCHANGED <<connPc, chains, rejoinDelays, gaveUp, notConnection>>

DCNext ==
    \/ DcJoin
    \/ DcJoinOk
    \/ DcJoinFails
    \/ \E c \in ChainIds : Disconnected(c)
    \/ \E c \in ChainIds : SelfHeals(c)
    \/ \E c \in ChainIds : SelfHealFails(c)
    \/ \E c \in ChainIds : SleepDone(c)
    \/ \E c \in ChainIds : RejoinFails(c)
    \/ \E c \in ChainIds : RejoinOk(c)
    \/ \E c \in ChainIds : HeartbeatTick(c)
    \/ DcLeave

\* ------------------------------------------------------------ engine factory

Modes == {"auto", "pipeline", "speech-to-speech"}
Providers == {"", "openai-realtime", "gemini-live", "other"}
ApiKeys == {"", " ", "key"}

EFIdle ==
    /\ cfgMode = "auto"
    /\ cfgProvider = ""
    /\ cfgOpenaiKey = ""
    /\ cfgGeminiKey = ""
    /\ created = "none"
    /\ warned = FALSE

EFInit ==
    /\ cfgMode \in Modes
    /\ cfgProvider \in Providers
    /\ cfgOpenaiKey \in ApiKeys
    /\ cfgGeminiKey \in ApiKeys
    /\ created = "none"
    /\ warned = FALSE

\* hasS2sCredentials(config)
HasS2sCredentials(provider, openaiKey, geminiKey) ==
    CASE provider = ""                -> FALSE
      [] provider = "openai-realtime" -> openaiKey # ""
      [] provider = "gemini-live"     -> geminiKey # ""
      [] OTHER                        -> FALSE

\* resolveMode with mode speech-to-speech never falling back.
ResolveModeForced(mode, credentials) ==
    CASE mode = "speech-to-speech" -> "speech-to-speech"
      [] mode = "pipeline"         -> "pipeline"
      [] OTHER -> IF credentials THEN "speech-to-speech" ELSE "pipeline"

\* resolveMode(config)
ResolveMode(mode, credentials) ==
    CASE mode = "speech-to-speech" ->
             IF ~credentials THEN "pipeline" ELSE "speech-to-speech"
      [] mode = "pipeline" -> "pipeline"
      [] OTHER -> IF credentials THEN "speech-to-speech" ELSE "pipeline"

\* createEngine(config, coreBridge)
CreateEngine ==
    /\ created = "none"
    /\ LET credentials == HasS2sCredentials(cfgProvider, cfgOpenaiKey, cfgGeminiKey)
       IN /\ created' = ResolveMode(cfgMode, credentials)
          /\ warned' = (cfgMode = "speech-to-speech" /\ ~credentials)
    /\ UNCHANGED <<cfgMode, cfgProvider, cfgOpenaiKey, cfgGeminiKey, notFactory>>

EFNext == CreateEngine

\* --------------------------------------------------------- VoiceSession.start

NoReject == [at |-> "none", connection |-> "none", heartbeatTimer |-> FALSE,
             audioSender |-> FALSE, audioReceiver |-> FALSE, state |-> "idle"]

SCInit ==
    /\ audioSender = FALSE
    /\ audioReceiver = FALSE
    /\ startRejected = NoReject

\* the session's variables start() does not touch
vsOther == <<activePassthrough, userVads, liveVads, disposing, activeSpeakers,
             activeStreams, interrupted, vsConfig, lastEv>>

\* What the session holds at the moment start() rejects.
Rejected(at, conn, hb, sender, receiver) ==
    [at |-> at, connection |-> conn, heartbeatTimer |-> hb,
     audioSender |-> sender, audioReceiver |-> receiver, state |-> sessionState]

\* start() is called and runs into discordConn.join for a voice channel:
\* the channel is stored and the voice connection created.
StartCall ==
    /\ sessionPc = "new"
    /\ connPc = "new"
    /\ sessionPc' = "joining"
    /\ channelId' = TRUE
    /\ reconnectAttempts' = DcJoinBegin(reconnectAttempts)
    /\ connection' = "connecting"
    /\ connPc' = "joining"
    /\ UNCHANGED <<sessionState, vsOther, heartbeatTimer, chains, rejoinDelays,
                   gaveUp, scOnly, notStart>>

\* start() is called with a channel that is no voice channel: join throws
\* before it creates a connection.
StartNoChannel ==
    /\ sessionPc = "new"
    /\ connPc = "new"
    /\ sessionPc' = "joining"
    /\ channelId' = TRUE
    /\ reconnectAttempts' = DcJoinBegin(reconnectAttempts)
    /\ connPc' = "failed"
    /\ UNCHANGED <<sessionState, vsOther, connection, heartbeatTimer, chains,
                   rejoinDelays, gaveUp, scOnly, notStart>>

\* join resolved: the sender and the receiver are created and engine.start
\* is awaited.
StartJoined ==
    /\ sessionPc = "joining"
    /\ connPc = "joined"
    /\ audioSender' = TRUE
    /\ audioReceiver' = TRUE
    /\ sessionPc' = "engine-starting"
    /\ UNCHANGED <<sessionState, vsOther, dcOnly, startRejected, notStart>>

\* join rejected: the rejection leaves start() as it is.
StartJoinRejected ==
    /\ sessionPc = "joining"
    /\ connPc = "failed"
    /\ sessionPc' = "rejected"
    /\ startRejected' = Rejected("join", connection, heartbeatTimer, audioSender,
                                 audioReceiver)
    /\ UNCHANGED <<sessionState, vsOther, dcOnly, audioSender, audioReceiver,
                   notStart>>

\* engine.start resolved: the listeners are attached, the state is listening.
EngineStartOk ==
    /\ sessionPc = "engine-starting"
    /\ sessionPc' = "running"
    /\ sessionState' = "listening"
    /\ UNCHANGED <<vsOther, dcOnly, scOnly, notStart>>

\* engine.start rejected: the receiver and the sender are disposed, leave()
\* is awaited, and the error is rethrown.
EngineStartFails ==
    /\ sessionPc = "engine-starting"
    /\ audioReceiver' = FALSE
    /\ audioSender' = FALSE
    /\ heartbeatTimer' = FALSE
    /\ connection' = "none"
    /\ channelId' = FALSE
    /\ reconnectAttempts' = 0
    /\ sessionPc' = "rejected"
    /\ startRejected' = Rejected("engine", "none", FALSE, FALSE, FALSE)
    /\ UNCHANGED <<sessionState, vsOther, connPc, chains, rejoinDelays, gaveUp,
                   notStart>>

SCNext ==
    \/ StartCall
    \/ StartNoChannel
    \/ DcJoinOk
    \/ DcJoinFails
    \/ StartJoined
    \/ StartJoinRejected
    \/ EngineStartOk
    \/ EngineStartFails
    \/ \E c \in ChainIds : Disconnected(c)
    \/ \E c \in ChainIds : SelfHeals(c)
    \/ \E c \in ChainIds : SelfHealFails(c)
    \/ \E c \in ChainIds : SleepDone(c)
    \/ \E c \in ChainIds : RejoinFails(c)
    \/ \E c \in ChainIds : RejoinOk(c)
    \/ \E c \in ChainIds : HeartbeatTick(c)

\* ----------------------------------------------- tool bridge (S2S engine)

ToolCallIds == 1..MaxToolCalls
ProviderCallIds == {"call-a", "call-b"}
ToolNames == {"discord_voice", "unregistered"}
\* registerToolsOnBridge registers one tool on the bridge.
ToolRegistry == {"discord_voice"}
NoToolCall == [state |-> "none", callId |-> "", name |-> "", outcome |-> "",
               open |-> FALSE, sends |-> <<>>]

TBInit ==
    /\ toolSession = "open"
    /\ toolCalls = [c \in ToolCallIds |-> NoToolCall]

\* CoreBridge.executeToolCall: the payload its promise resolves with. An
\* unknown name returns an error object, a throwing handler is caught and
\* turned into one; the promise never rejects.
ExecuteToolCall(name, outcome) ==
    IF name \notin ToolRegistry THEN "error"
    ELSE IF outcome = "throws" THEN "error"
    ELSE "result"

\* The engine's tool-call handler after `await executeToolCall`: with a
\* session it invokes sendToolResult(call.callId, result) once.
ToolCallSettleRethrow(c, outcome) ==
    LET call == toolCalls[c]
        payload == ExecuteToolCall(call.name, outcome)
    IN  toolCalls' = [toolCalls EXCEPT ![c] =
            [call EXCEPT !.state = IF payload = "error" THEN "threw" ELSE "settled",
                         !.outcome = outcome,
                         !.open = (toolSession = "open"),
                         !.sends = IF toolSession = "open" /\ payload # "error"
                                   THEN Append(@, [callId |-> call.callId,
                                                   payload |-> payload])
                                   ELSE @]]

ToolCallSettle(c, outcome) ==
    LET call == toolCalls[c]
        payload == ExecuteToolCall(call.name, outcome)
    IN  toolCalls' = [toolCalls EXCEPT ![c] =
            [call EXCEPT !.state = "settled",
                         !.outcome = outcome,
                         !.open = (toolSession = "open"),
                         !.sends = IF toolSession = "open"
                                   THEN Append(@, [callId |-> call.callId,
                                                   payload |-> payload])
                                   ELSE @]]

\* The provider emits "tool-call": the handler calls executeToolCall, which
\* for an unregistered name returns at once (the handler resumes before any
\* other event) and for a registered one awaits the tool's handler.
ToolCall(c, id, name) ==
    /\ toolSession = "open"
    /\ toolCalls[c].state = "none"
    /\ \A b \in ToolCallIds : b < c => toolCalls[b].state # "none"
    /\ IF name \in ToolRegistry
       THEN toolCalls' = [toolCalls EXCEPT ![c] =
                [@ EXCEPT !.state = "executing", !.callId = id, !.name = name]]
       ELSE toolCalls' = [toolCalls EXCEPT ![c] =
                [state |-> "settled", callId |-> id, name |-> name,
                 outcome |-> "unknown", open |-> TRUE,
                 sends |-> <<[callId |-> id,
                              payload |-> ExecuteToolCall(name, "unknown")]>>]]
    /\ UNCHANGED <<toolSession, notTool>>

\* The registered tool's handler returns or throws; executeToolCall resolves
\* and the engine's handler resumes.
ToolHandlerSettles(c, outcome) ==
    /\ toolCalls[c].state = "executing"
    /\ ToolCallSettle(c, outcome)
    /\ UNCHANGED <<toolSession, notTool>>

\* SpeechToSpeechEngine.stop: the session is closed and this.session nulled.
ToolEngineStop ==
    /\ toolSession = "open"
    /\ toolSession' = "null"
    /\ UNCHANGED <<toolCalls, notTool>>

TBNext ==
    \/ \E c \in ToolCallIds, id \in ProviderCallIds, name \in ToolNames :
          ToolCall(c, id, name)
    \/ \E c \in ToolCallIds, outcome \in {"returns", "throws"} :
          ToolHandlerSettles(c, outcome)
    \/ ToolEngineStop

\* ----------------------------------------------------------- EchoSuppressor

\* RMS of outbound and of inbound frames: 1.4 times 428 is 599.2, between the
\* two inbound values, and 600 is the cooldown limit.
OutboundRms == {0, 428}
InboundRms == {599, 600}
\* Date.now() when the suppressor is constructed, in ms.
EchoEpoch == 1000
TickMs == 150
NoFall == 0 - 1
NoSuppress == [rms |-> 0 - 1, result |-> FALSE]

ESInit ==
    /\ echoBotSpeaking = FALSE
    /\ botStoppedSpeakingAt = 0
    /\ outboundRmsHistory = <<>>
    /\ echoNow = EchoEpoch
    /\ registered = <<>>
    /\ lastFallAt = NoFall
    /\ lastSuppress = NoSuppress

RECURSIVE SumSeq(_)
SumSeq(s) == IF s = <<>> THEN 0 ELSE Head(s) + SumSeq(Tail(s))

\* Number of positions of a sequence whose value differs from the one before.
Changes(s) == Cardinality({i \in 2..Len(s) : s[i] # s[i - 1]})

\* isInCooldown
IsInCooldown ==
    IF echoBotSpeaking THEN FALSE
    ELSE echoNow - botStoppedSpeakingAt < ECHO_COOLDOWN_MS

\* shouldSuppress(pcm) for a frame of the given RMS. The average is
\* sum / length and the comparison inRms < avg * 1.4, written without
\* division as 10 * inRms * length < 14 * sum.
ShouldSuppressResult(inRms) ==
    IF ~echoBotSpeaking /\ ~IsInCooldown THEN FALSE
    ELSE IF IsInCooldown /\ ~echoBotSpeaking THEN inRms < 600
    ELSE LET n == Len(outboundRmsHistory)
             sum == SumSeq(outboundRmsHistory)
         IN  n > 0 /\ sum > 0 /\ 10 * inRms * n < 14 * sum

\* registerOutbound(pcm): push, then shift when longer than historyLength.
RegisterOutboundNoShift(rms) ==
    /\ Len(registered) < MaxOutbound
    /\ Changes(Append(registered, rms)) <= MaxRmsChanges
    /\ outboundRmsHistory' = Append(outboundRmsHistory, rms)
    /\ registered' = Append(registered, rms)
    /\ lastSuppress' = NoSuppress
    /\ UNCHANGED <<echoBotSpeaking, botStoppedSpeakingAt, echoNow, lastFallAt,
                   notEcho>>

RegisterOutbound(rms) ==
    /\ Len(registered) < MaxOutbound
    /\ Changes(Append(registered, rms)) <= MaxRmsChanges
    /\ outboundRmsHistory' =
          LET pushed == Append(outboundRmsHistory, rms)
          IN  IF Len(pushed) > historyLength THEN Tail(pushed) ELSE pushed
    /\ registered' = Append(registered, rms)
    /\ lastSuppress' = NoSuppress
    /\ UNCHANGED <<echoBotSpeaking, botStoppedSpeakingAt, echoNow, lastFallAt,
                   notEcho>>

\* setSpeaking(speaking): the stop time is stamped only when the flag falls.
EchoSetSpeakingAlwaysStamp(speaking) ==
    /\ botStoppedSpeakingAt' =
          IF ~speaking THEN echoNow ELSE botStoppedSpeakingAt
    /\ echoBotSpeaking' = speaking
    /\ lastFallAt' = IF ~speaking /\ echoBotSpeaking THEN echoNow ELSE lastFallAt
    /\ lastSuppress' = NoSuppress
    /\ UNCHANGED <<outboundRmsHistory, echoNow, registered, notEcho>>

EchoSetSpeaking(speaking) ==
    /\ botStoppedSpeakingAt' =
          IF ~speaking /\ echoBotSpeaking THEN echoNow ELSE botStoppedSpeakingAt
    /\ echoBotSpeaking' = speaking
    /\ lastFallAt' = IF ~speaking /\ echoBotSpeaking THEN echoNow ELSE lastFallAt
    /\ lastSuppress' = NoSuppress
    /\ UNCHANGED <<outboundRmsHistory, echoNow, registered, notEcho>>

\* shouldSuppress(pcm) is called; it changes nothing.
ShouldSuppress(inRms) ==
    /\ lastSuppress' = [rms |-> inRms, result |-> ShouldSuppressResult(inRms)]
    /\ UNCHANGED <<echoBotSpeaking, botStoppedSpeakingAt, outboundRmsHistory,
                   echoNow, registered, lastFallAt, notEcho>>

\* reset()
EchoReset ==
    /\ outboundRmsHistory' = <<>>
    /\ echoBotSpeaking' = FALSE
    /\ botStoppedSpeakingAt' = 0
    /\ registered' = <<>>
    /\ lastFallAt' = NoFall
    /\ lastSuppress' = NoSuppress
    /\ UNCHANGED <<echoNow, notEcho>>

\* Time passes.
EchoTick ==
    /\ echoNow < EchoEpoch + MaxTicks * TickMs
    /\ echoNow' = echoNow + TickMs
    /\ lastSuppress' = NoSuppress
    /\ UNCHANGED <<echoBotSpeaking, botStoppedSpeakingAt, outboundRmsHistory,
                   registered, lastFallAt, notEcho>>

ESNext ==
    \/ \E rms \in OutboundRms : RegisterOutbound(rms)
    \/ \E speaking \in BOOLEAN : EchoSetSpeaking(speaking)
    \/ \E inRms \in InboundRms : ShouldSuppress(inRms)
    \/ EchoReset
    \/ EchoTick

\* ------------------------------------------------------ ConversationContext

\* options.maxTurns as the constructor may get it; Unset stands for an absent
\* option, which `options.maxTurns ?? 50` turns into 50.
MaxTurnsOptions == {Unset, 0, 1, 2, 3}
ResolveMaxTurns(option) == IF option = Unset THEN MaxConversationTurns ELSE option

\* The context of an engine built with the default configuration.
CCIdle ==
    /\ contextTurns = <<>>
    /\ contextMaxTurns = ResolveMaxTurns(Unset)
    /\ appended = <<>>

CCInit ==
    /\ contextTurns = <<>>
    /\ contextMaxTurns \in {ResolveMaxTurns(o) : o \in MaxTurnsOptions}
    /\ appended = <<>>

\* addTurn(turn)
ContextAddTurn ==
    /\ Len(appended) < MaxAppends
    /\ LET turn == Len(appended) + 1 IN
       /\ contextTurns' = AddTurn(contextTurns, turn, contextMaxTurns)
       /\ appended' = Append(appended, turn)
    /\ UNCHANGED <<contextMaxTurns, notContext>>

CCNext == ContextAddTurn

\* --------------------------------------------------------- SentenceSplitter

\* "Hi there. How are you?"
SplitText == <<"H", "i", " ", "t", "h", "e", "r", "e", ".", " ",
               "H", "o", "w", " ", "a", "r", "e", " ", "y", "o", "u", "?">>
SentenceOne == <<"H", "i", " ", "t", "h", "e", "r", "e", ".">>
SentenceTwo == <<"H", "o", "w", " ", "a", "r", "e", " ", "y", "o", "u", "?">>

\* the classes of SENTENCE_BOUNDARY_RE = /([.!?])\s+/
IsTerminator(ch) == ch \in {".", "!", "?"}
IsSpace(ch) == ch \in {" ", "\t", "\n"}

SSInit ==
    /\ splitBuffer = <<>>
    /\ sentences = <<>>
    /\ tokenLens = <<>>
    /\ flushed = FALSE

\* String.prototype.trim
RECURSIVE Trim(_)
Trim(s) ==
    IF s = <<>> THEN s
    ELSE IF IsSpace(Head(s)) THEN Trim(Tail(s))
    ELSE IF IsSpace(s[Len(s)]) THEN Trim(SubSeq(s, 1, Len(s) - 1))
    ELSE s

\* SENTENCE_BOUNDARY_RE.exec(buffer): position of the first terminator that
\* is followed by whitespace, 0 if there is none, and the length of the
\* whole match (the terminator and the run of whitespace after it).
MatchIndex(buf) ==
    LET hits == {i \in 1..(Len(buf) - 1) : IsTerminator(buf[i]) /\ IsSpace(buf[i + 1])}
    IN  IF hits = {} THEN 0 ELSE CHOOSE i \in hits : \A j \in hits : i <= j

MatchLength(buf, i) ==
    LET ends == {j \in (i + 1)..Len(buf) : \A k \in (i + 1)..j : IsSpace(buf[k])}
    IN  1 + Cardinality(ends)

\* buffer.slice(0, match.index + match[1].length).trim()
SentenceAtNoTerminator(buf, i) == Trim(SubSeq(buf, 1, i - 1))

SentenceAt(buf, i) == Trim(SubSeq(buf, 1, i))

\* The while loop of feed, from a buffer and the sentences yielded so far.
RECURSIVE FeedLoop(_, _)
FeedLoop(buf, out) ==
    LET i == MatchIndex(buf) IN
    IF i = 0 THEN [buffer |-> buf, out |-> out]
    ELSE FeedLoop(SubSeq(buf, i + MatchLength(buf, i), Len(buf)),
                  Append(out, SentenceAt(buf, i)))

\* Characters of the text fed so far.
Fed == SumSeq(tokenLens)

\* feed(token, onSentence) with the next len characters of the text.
SplitFeed(len) ==
    /\ ~flushed
    /\ Len(tokenLens) < MaxTokens
    /\ Fed + len <= Len(SplitText)
    /\ LET token == SubSeq(SplitText, Fed + 1, Fed + len)
           r == FeedLoop(splitBuffer \o token, sentences)
       IN  /\ splitBuffer' = r.buffer
           /\ sentences' = r.out
    /\ tokenLens' = Append(tokenLens, len)
    /\ UNCHANGED <<flushed, notSplitter>>

\* flush(), once the whole text has been fed: the trimmed rest of the buffer
\* is returned unless it is empty.
SplitFlush ==
    /\ ~flushed
    /\ Fed = Len(SplitText)
    /\ LET text == Trim(splitBuffer) IN
       sentences' = IF text = <<>> THEN sentences ELSE Append(sentences, text)
    /\ splitBuffer' = <<>>
    /\ flushed' = TRUE
    /\ UNCHANGED <<tokenLens, notSplitter>>

SSNext ==
    \/ \E len \in 1..Len(SplitText) : SplitFeed(len)
    \/ SplitFlush

\* ------------------------------------------------------- gateway RPC methods

RpcIds == 1..MaxRpcCalls
RpcMethods == {"join", "leave", "speak"}
NoRpc == [method |-> "", state |-> "none", responds |-> <<>>, threw |-> FALSE]

RPCInit ==
    /\ serviceRunning = FALSE
    /\ serviceStarts = 0
    /\ rpcCalls = [c \in RpcIds |-> NoRpc]

\* respond(success, data): what the caller gets.
Respond(call, success) ==
    [call EXCEPT !.state = "done",
                 !.responds = Append(@, [success |-> success, error |-> ~success])]

\* ensureRunning, called between the parameter check and the try block: it
\* throws when the service is not running, and the handler's promise rejects.
EnsureRunning(call) ==
    IF serviceRunning THEN [call EXCEPT !.state = "awaiting"]
    ELSE [call EXCEPT !.state = "done", !.threw = TRUE]

\* service start(): config is resolved, the bridge and the manager created.
ServiceStart ==
    /\ ~serviceRunning
    /\ serviceStarts < MaxServiceStarts
    /\ serviceRunning' = TRUE
    /\ serviceStarts' = serviceStarts + 1
    /\ UNCHANGED <<rpcCalls, notRpc>>

\* service stop(), once stopAll has settled: manager, bridge and config are nulled.
ServiceStop ==
    /\ serviceRunning
    /\ serviceRunning' = FALSE
    /\ UNCHANGED <<serviceStarts, rpcCalls, notRpc>>

\* A gateway method is invoked: missing parameters are answered at once,
\* then ensureRunning is called, then the manager.
RpcInvoke(c, method, paramsOk) ==
    /\ rpcCalls[c].state = "none"
    /\ \A b \in RpcIds : b < c => rpcCalls[b].state # "none"
    /\ LET call == [rpcCalls[c] EXCEPT !.method = method] IN
       rpcCalls' = [rpcCalls EXCEPT ![c] =
           IF ~paramsOk THEN Respond(call, FALSE) ELSE EnsureRunning(call)]
    /\ UNCHANGED <<serviceRunning, serviceStarts, notRpc>>

\* speak: getSession finds no session for the guild.
RpcNoSession(c) ==
    /\ rpcCalls[c].state = "awaiting"
    /\ rpcCalls[c].method = "speak"
    /\ rpcCalls' = [rpcCalls EXCEPT ![c] = Respond(@, FALSE)]
    /\ UNCHANGED <<serviceRunning, serviceStarts, notRpc>>

\* The awaited join, leave or injectText resolves or rejects.
RpcSettles(c, resolved) ==
    /\ rpcCalls[c].state = "awaiting"
    /\ rpcCalls' = [rpcCalls EXCEPT ![c] = Respond(@, resolved)]
    /\ UNCHANGED <<serviceRunning, serviceStarts, notRpc>>

RPCNext ==
    \/ ServiceStart
    \/ ServiceStop
    \/ \E c \in RpcIds, method \in RpcMethods, paramsOk \in BOOLEAN :
          RpcInvoke(c, method, paramsOk)
    \/ \E c \in RpcIds : RpcNoSession(c)
    \/ \E c \in RpcIds, resolved \in BOOLEAN : RpcSettles(c, resolved)

\* ------------------------------------------- PipelineEngine provider fallback

UtteranceIds == 1..MaxUtterances
SentenceIds == 1..MaxSentences
NoStt == [primary |-> "none", fallback |-> "none", result |-> "none"]
NoSynth == [primary |-> "none", fallback |-> "none", errors |-> 0]

\* An engine started with a fallback for both providers.
FBIdle ==
    /\ fallbackStt = TRUE
    /\ fallbackTts = TRUE
    /\ sttCalls = [u \in UtteranceIds |-> NoStt]
    /\ ttsCalls = [k \in SentenceIds |-> NoSynth]

\* start(): a fallback provider is created when it is configured to differ
\* from the primary and its creation succeeds, and is null otherwise.
FBInit ==
    /\ fallbackStt \in BOOLEAN
    /\ fallbackTts \in BOOLEAN
    /\ sttCalls = [u \in UtteranceIds |-> NoStt]
    /\ ttsCalls = [k \in SentenceIds |-> NoSynth]

\* transcribeWithFallback is called: the primary transcription starts.
Transcribe(u) ==
    /\ sttCalls[u].primary = "none"
    /\ \A b \in UtteranceIds : b < u => sttCalls[b].result # "none"
    /\ sttCalls' = [sttCalls EXCEPT ![u].primary = "pending"]
    /\ UNCHANGED <<fallbackStt, fallbackTts, ttsCalls, notFallback>>

\* The primary transcription resolves.
SttPrimaryOk(u) ==
    /\ sttCalls[u].primary = "pending"
    /\ sttCalls' = [sttCalls EXCEPT ![u].primary = "ok", ![u].result = "text"]
    /\ UNCHANGED <<fallbackStt, fallbackTts, ttsCalls, notFallback>>

\* The primary transcription rejects (or the primary has no batch support):
\* the catch block calls the fallback if there is one and rethrows otherwise.
SttPrimaryFails(u) ==
    /\ sttCalls[u].primary = "pending"
    /\ sttCalls' = [sttCalls EXCEPT ![u] =
          IF fallbackStt
          THEN [@ EXCEPT !.primary = "failed", !.fallback = "pending"]
          ELSE [@ EXCEPT !.primary = "failed", !.result = "error"]]
    /\ UNCHANGED <<fallbackStt, fallbackTts, ttsCalls, notFallback>>

\* The fallback transcription resolves or rejects.
SttFallbackSettles(u, ok) ==
    /\ sttCalls[u].fallback = "pending"
    /\ sttCalls' = [sttCalls EXCEPT ![u].fallback = IF ok THEN "ok" ELSE "failed",
                                    ![u].result = IF ok THEN "text" ELSE "error"]
    /\ UNCHANGED <<fallbackStt, fallbackTts, ttsCalls, notFallback>>

\* synthesizeAndEmit(sentence): a stream of the primary TTS is opened.
Synthesize(k) ==
    /\ ttsCalls[k].primary = "none"
    /\ \A b \in SentenceIds : b < k => ttsCalls[b].primary # "none"
    /\ ttsCalls' = [ttsCalls EXCEPT ![k].primary = "streaming"]
    /\ UNCHANGED <<fallbackStt, fallbackTts, sttCalls, notFallback>>

\* The stream ends.
SynthEnd(k) ==
    /\ ttsCalls[k].primary = "streaming"
    /\ ttsCalls' = [ttsCalls EXCEPT ![k].primary = "ended"]
    /\ UNCHANGED <<fallbackStt, fallbackTts, sttCalls, notFallback>>

\* The stream emits "error": the handler emits the engine's "error" event
\* and does nothing else; this.fallbackTts is not used.
SynthError(k) ==
    /\ ttsCalls[k].primary = "streaming"
    /\ ttsCalls' = [ttsCalls EXCEPT ![k].primary = "failed",
                                    ![k].errors = @ + 1]
    /\ UNCHANGED <<fallbackStt, fallbackTts, sttCalls, notFallback>>

FBNext ==
    \/ \E u \in UtteranceIds : Transcribe(u)
    \/ \E u \in UtteranceIds : SttPrimaryOk(u)
    \/ \E u \in UtteranceIds : SttPrimaryFails(u)
    \/ \E u \in UtteranceIds, ok \in BOOLEAN : SttFallbackSettles(u, ok)
    \/ \E k \in SentenceIds : Synthesize(k)
    \/ \E k \in SentenceIds : SynthEnd(k)
    \/ \E k \in SentenceIds : SynthError(k)

\* ---------------------------------------------------- VoiceActivityDetector

\* RMS of the frames fed: at the threshold and just above it.
FrameRms == {800, 801}
VadEpoch == 10000
VadTickMs == 500
NoVad == [kind |-> "none", above |-> FALSE, wasSpeaking |-> FALSE,
          since |-> 0, emitted |-> "none", afterDowngrade |-> FALSE]

\* A detector of the default configuration whose model is loading.
VADIdle ==
    /\ vadEngine = "silero"
    /\ sileroVad = "loading"
    /\ rmsSpeaking = FALSE
    /\ rmsLastSpeechTime = 0
    /\ vadNow = VadEpoch
    /\ sileroInFlight = <<>>
    /\ downgraded = FALSE
    /\ rmsEmittedLast = "none"
    /\ lastAboveAt = 0
    /\ sileroSpeaking = FALSE
    /\ vadLastEvent = "none"
    /\ vadPrevEvent = "none"
    /\ lastVad = NoVad

\* new VoiceActivityDetector(config) followed by init(): with the silero
\* engine the model starts loading, with the rms engine there is none.
VADInit ==
    /\ vadEngine \in {"silero", "rms"}
    /\ sileroVad = IF vadEngine = "silero" THEN "loading" ELSE "null"
    /\ rmsSpeaking = FALSE
    /\ rmsLastSpeechTime = 0
    /\ vadNow = VadEpoch
    /\ sileroInFlight = <<>>
    /\ downgraded = FALSE
    /\ rmsEmittedLast = "none"
    /\ lastAboveAt = 0
    /\ sileroSpeaking = FALSE
    /\ vadLastEvent = "none"
    /\ vadPrevEvent = "none"
    /\ lastVad = NoVad

\* processRms(pcm) for a frame of the given RMS: the new rmsSpeaking and
\* rmsLastSpeechTime and the event emitted.
ProcessRmsNoRestart(rms) ==
    LET isSpeech == rms > RmsThreshold IN
    IF isSpeech
    THEN [speaking |-> TRUE,
          last |-> IF ~rmsSpeaking THEN vadNow ELSE rmsLastSpeechTime,
          emitted |-> IF ~rmsSpeaking THEN "speech-start" ELSE "none"]
    ELSE IF rmsSpeaking /\ vadNow - rmsLastSpeechTime >= SilenceDurationMs
    THEN [speaking |-> FALSE, last |-> rmsLastSpeechTime, emitted |-> "speech-end"]
    ELSE [speaking |-> rmsSpeaking, last |-> rmsLastSpeechTime, emitted |-> "none"]

ProcessRms(rms) ==
    LET isSpeech == rms > RmsThreshold IN
    IF isSpeech
    THEN [speaking |-> TRUE, last |-> vadNow,
          emitted |-> IF ~rmsSpeaking THEN "speech-start" ELSE "none"]
    ELSE IF rmsSpeaking /\ vadNow - rmsLastSpeechTime >= SilenceDurationMs
    THEN [speaking |-> FALSE, last |-> rmsLastSpeechTime, emitted |-> "speech-end"]
    ELSE [speaking |-> rmsSpeaking, last |-> rmsLastSpeechTime, emitted |-> "none"]

\* this.emit(ev) of the detector; "none" when nothing is emitted.
VadEmit(ev) ==
    /\ vadLastEvent' = IF ev = "none" THEN vadLastEvent ELSE ev
    /\ vadPrevEvent' = IF ev = "none" THEN vadPrevEvent ELSE vadLastEvent

vadQuiet == <<sileroSpeaking, vadLastEvent, vadPrevEvent>>

\* A processRms call takes effect and is recorded.
RmsCommit(rms) ==
    LET r == ProcessRms(rms) IN
    /\ VadEmit(r.emitted)
    /\ UNCHANGED sileroSpeaking
    /\ rmsSpeaking' = r.speaking
    /\ rmsLastSpeechTime' = r.last
    /\ rmsEmittedLast' = IF r.emitted = "none" THEN rmsEmittedLast ELSE r.emitted
    /\ lastAboveAt' = IF rms > RmsThreshold THEN vadNow ELSE lastAboveAt
    /\ lastVad' = [kind |-> "rms", above |-> rms > RmsThreshold,
                   wasSpeaking |-> rmsEmittedLast = "speech-start",
                   since |-> vadNow - lastAboveAt,
                   emitted |-> r.emitted, afterDowngrade |-> downgraded]

\* process(pcm): to the neural engine when it is selected and loaded,
\* otherwise to processRms.
VadProcess(rms) ==
    IF vadEngine = "silero" /\ sileroVad = "ready"
    THEN /\ Len(sileroInFlight) < MaxInFlight
         /\ sileroInFlight' = Append(sileroInFlight, rms)
         /\ lastVad' = [NoVad EXCEPT !.kind = "silero",
                                     !.afterDowngrade = downgraded]
         /\ UNCHANGED <<vadEngine, sileroVad, rmsSpeaking, rmsLastSpeechTime,
                        vadNow, downgraded, rmsEmittedLast, lastAboveAt,
                        vadQuiet, notVad>>
    ELSE /\ RmsCommit(rms)
         /\ UNCHANGED <<vadEngine, sileroVad, vadNow, sileroInFlight, downgraded,
                        notVad>>

\* initSilero: the model loads and is started.
SileroLoadOk ==
    /\ sileroVad = "loading"
    /\ sileroVad' = "ready"
    /\ lastVad' = NoVad
    /\ UNCHANGED <<vadEngine, rmsSpeaking, rmsLastSpeechTime, vadNow,
                   sileroInFlight, downgraded, rmsEmittedLast, lastAboveAt,
                   vadQuiet, notVad>>

\* initSilero: loading fails, the catch block selects the rms engine.
SileroLoadFails ==
    /\ sileroVad = "loading"
    /\ sileroVad' = "null"
    /\ vadEngine' = "rms"
    /\ downgraded' = TRUE
    /\ lastVad' = NoVad
    /\ UNCHANGED <<rmsSpeaking, rmsLastSpeechTime, vadNow, sileroInFlight,
                   rmsEmittedLast, lastAboveAt, vadQuiet, notVad>>

\* A pending processSilero call resolves; the neural engine, whose segments
\* start and end in turn, has called onSpeechStart, onSpeechEnd or neither.
SileroFrameOk(i, ev) ==
    /\ i \in 1..Len(sileroInFlight)
    /\ ev = "speech-start" => ~sileroSpeaking
    /\ ev = "speech-end" => sileroSpeaking
    /\ sileroSpeaking' = IF ev = "none" THEN sileroSpeaking ELSE ev = "speech-start"
    /\ VadEmit(ev)
    /\ sileroInFlight' = SubSeq(sileroInFlight, 1, i - 1)
                         \o SubSeq(sileroInFlight, i + 1, Len(sileroInFlight))
    /\ lastVad' = NoVad
    /\ UNCHANGED <<vadEngine, sileroVad, rmsSpeaking, rmsLastSpeechTime, vadNow,
                   downgraded, rmsEmittedLast, lastAboveAt, notVad>>

\* A pending processSilero call rejects: the catch of process selects the
\* rms engine and hands the frame to processRms.
SileroFrameFails(i) ==
    /\ i \in 1..Len(sileroInFlight)
    /\ sileroInFlight' = SubSeq(sileroInFlight, 1, i - 1)
                         \o SubSeq(sileroInFlight, i + 1, Len(sileroInFlight))
    /\ vadEngine' = "rms"
    /\ downgraded' = TRUE
    /\ RmsCommit(sileroInFlight[i])
    /\ UNCHANGED <<sileroVad, vadNow, notVad>>

\* Time passes.
VadTick ==
    /\ vadNow < VadEpoch + MaxVadTicks * VadTickMs
    /\ vadNow' = vadNow + VadTickMs
    /\ lastVad' = NoVad
    /\ UNCHANGED <<vadEngine, sileroVad, rmsSpeaking, rmsLastSpeechTime,
                   sileroInFlight, downgraded, rmsEmittedLast, lastAboveAt,
                   vadQuiet, notVad>>

VADNext ==
    \/ \E rms \in FrameRms : VadProcess(rms)
    \/ SileroLoadOk
    \/ SileroLoadFails
    \/ \E i \in 1..MaxInFlight, ev \in {"none", "speech-start", "speech-end"} :
          SileroFrameOk(i, ev)
    \/ \E i \in 1..MaxInFlight : SileroFrameFails(i)
    \/ VadTick

\* ------------------------------- a running session on the pipeline engine

UTIdle ==
    /\ utState = "listening"
    /\ utPassthrough = FALSE
    /\ utSenderPlaying = FALSE
    /\ utBuffered = FALSE
    /\ utIsProcessing = FALSE
    /\ utInterrupted = FALSE
    /\ utHasFallback = TRUE
    /\ utPc = "none"
    /\ utKept = FALSE
    /\ utResidual = FALSE
    /\ utLive = 0

\* start() has resolved: state listening, the engine started with or without
\* a fallback STT provider.
UTInit ==
    /\ utState = "listening"
    /\ utPassthrough = FALSE
    /\ utSenderPlaying = FALSE
    /\ utBuffered = FALSE
    /\ utIsProcessing = FALSE
    /\ utInterrupted = FALSE
    /\ utHasFallback \in BOOLEAN
    /\ utPc = "none"
    /\ utKept = FALSE
    /\ utResidual = FALSE
    /\ utLive = 0

utConfig == <<utHasFallback>>

\* The session's listener of an engine event, applied to the state st and the
\* PassThrough flag pt: the new state, flag and player.
UtOnEngineEvent(ev, st, pt, playing) ==
    CASE ev = "audio-out" ->
            [state |-> "speaking", passthrough |-> TRUE,
             playing |-> IF pt THEN playing ELSE TRUE]
      [] ev = "turn-end" ->
            [state |-> IF st = "speaking" THEN "listening" ELSE st,
             passthrough |-> FALSE, playing |-> playing]
      [] ev = "transcript-in" ->
            [state |-> IF st # "speaking" THEN "processing" ELSE st,
             passthrough |-> pt, playing |-> playing]
      [] OTHER -> [state |-> st, passthrough |-> pt, playing |-> playing]

UtDeliver(ev) ==
    LET r == UtOnEngineEvent(ev, utState, utPassthrough, utSenderPlaying) IN
    /\ utState' = r.state
    /\ utPassthrough' = r.passthrough
    /\ utSenderPlaying' = r.playing

\* receiver "packet": the frame goes to the VAD and to engine.feedAudio.
UtPacket ==
    /\ utBuffered' = TRUE
    /\ UNCHANGED <<utState, utPassthrough, utSenderPlaying, utIsProcessing,
                   utInterrupted, utPc, utKept, utResidual, utLive, utConfig,
                   notTurn>>

\* The VAD's speech-end, after frames of the user have been fed:
\* engine.endOfSpeech(u), which starts processUtterance unless the engine is
\* processing or has no frames, then listening becomes processing.
UtSpeechEnd ==
    /\ utBuffered
    /\ IF utIsProcessing
       THEN UNCHANGED <<utBuffered, utIsProcessing, utInterrupted, utPc>>
       ELSE /\ utBuffered' = FALSE
            /\ IF ~utBuffered
               THEN UNCHANGED <<utIsProcessing, utInterrupted, utPc>>
               ELSE /\ utIsProcessing' = TRUE
                    /\ utInterrupted' = FALSE
                    /\ utPc' = "stt"
    /\ utState' = IF utState = "listening" THEN "processing" ELSE utState
    /\ UNCHANGED <<utPassthrough, utSenderPlaying, utKept, utResidual, utLive,
                   utConfig, notTurn>>

\* processUtterance returns or throws: the lock is released.
UtRelease ==
    /\ utIsProcessing' = FALSE
    /\ utPc' = "none"
    /\ utKept' = FALSE
    /\ utResidual' = FALSE

\* A transcription settles with text: transcript-in, then generateAndSpeak.
UtTranscribed ==
    /\ UtDeliver("transcript-in")
    /\ utPc' = "llm"
    /\ UNCHANGED <<utIsProcessing, utKept, utResidual>>

\* The primary transcription settles.
UtSttPrimary(outcome) ==
    /\ utPc = "stt"
    /\ CASE outcome = "text"  -> UtTranscribed
         [] outcome = "empty" ->
                UtRelease /\ UNCHANGED <<utState, utPassthrough, utSenderPlaying>>
         [] outcome = "fail"  ->
                IF utHasFallback
                THEN /\ utPc' = "fallback"
                     /\ UNCHANGED <<utState, utPassthrough, utSenderPlaying,
                                    utIsProcessing, utKept, utResidual>>
                ELSE UtRelease /\ UtDeliver("error")
    /\ UNCHANGED <<utBuffered, utInterrupted, utLive, utConfig, notTurn>>

\* The fallback transcription settles.
UtSttFallback(outcome) ==
    /\ utPc = "fallback"
    /\ CASE outcome = "text"  -> UtTranscribed
         [] outcome = "empty" ->
                UtRelease /\ UNCHANGED <<utState, utPassthrough, utSenderPlaying>>
         [] outcome = "fail"  -> UtRelease /\ UtDeliver("error")
    /\ UNCHANGED <<utBuffered, utInterrupted, utLive, utConfig, notTurn>>

\* The token callback: dropped while interrupted, otherwise kept and fed to
\* the splitter, which may complete a sentence for synthesizeAndEmit.
UtToken(completes) ==
    /\ utPc = "llm"
    /\ completes /\ ~utInterrupted => utLive < MaxLive
    /\ IF utInterrupted
       THEN UNCHANGED <<utKept, utResidual, utLive>>
       ELSE /\ utKept' = TRUE
            /\ utResidual' = ~completes
            /\ utLive' = IF completes THEN utLive + 1 ELSE utLive
    /\ UNCHANGED <<utState, utPassthrough, utSenderPlaying, utBuffered,
                   utIsProcessing, utInterrupted, utPc, utConfig, notTurn>>

\* streamAgentResponse resolves: flush, transcript-out if a token was kept,
\* turn-end, and processUtterance releases the lock.
UtLlmEnd ==
    /\ utPc = "llm"
    /\ utResidual /\ ~utInterrupted => utLive < MaxLive
    /\ utLive' = IF utResidual /\ ~utInterrupted THEN utLive + 1 ELSE utLive
    /\ UtDeliver("turn-end")
    /\ UtRelease
    /\ UNCHANGED <<utBuffered, utInterrupted, utConfig, notTurn>>

\* streamAgentResponse rejects: error is emitted and the lock released.
UtLlmFails ==
    /\ utPc = "llm"
    /\ UtDeliver("error")
    /\ UtRelease
    /\ UNCHANGED <<utBuffered, utInterrupted, utLive, utConfig, notTurn>>

\* A TTS stream delivers a chunk: audio-out unless interrupted.
UtTtsAudio ==
    /\ utLive > 0
    /\ IF utInterrupted
       THEN UNCHANGED <<utState, utPassthrough, utSenderPlaying>>
       ELSE UtDeliver("audio-out")
    /\ UNCHANGED <<utBuffered, utIsProcessing, utInterrupted, utPc, utKept,
                   utResidual, utLive, utConfig, notTurn>>

\* A TTS stream ends or fails.
UtTtsEnd ==
    /\ utLive > 0
    /\ utLive' = utLive - 1
    /\ UNCHANGED <<utState, utPassthrough, utSenderPlaying, utBuffered,
                   utIsProcessing, utInterrupted, utPc, utKept, utResidual,
                   utConfig, notTurn>>

\* The player reports idle: speaking becomes listening.
UtSenderIdle ==
    /\ utSenderPlaying
    /\ utSenderPlaying' = FALSE
    /\ utState' = IF utState = "speaking" THEN "listening" ELSE utState
    /\ UNCHANGED <<utPassthrough, utBuffered, utIsProcessing, utInterrupted,
                   utPc, utKept, utResidual, utLive, utConfig, notTurn>>

\* user-speaking-start while speaking: handleBargeIn.
UtBargeIn ==
    /\ utState = "speaking"
    /\ utInterrupted' = TRUE
    /\ utPassthrough' = FALSE
    /\ utSenderPlaying' = FALSE
    /\ utState' = "listening"
    /\ UNCHANGED <<utBuffered, utIsProcessing, utPc, utKept, utResidual, utLive,
                   utConfig, notTurn>>

UTNext ==
    \/ UtPacket
    \/ UtSpeechEnd
    \/ \E outcome \in {"text", "empty", "fail"} : UtSttPrimary(outcome)
    \/ \E outcome \in {"text", "empty", "fail"} : UtSttFallback(outcome)
    \/ \E completes \in BOOLEAN : UtToken(completes)
    \/ UtLlmEnd
    \/ UtLlmFails
    \/ UtTtsAudio
    \/ UtTtsEnd
    \/ UtSenderIdle
    \/ UtBargeIn

\* The pending operations of the engine, its providers and the player
\* complete.
UTFair ==
    /\ WF_vars(\E outcome \in {"text", "empty", "fail"} : UtSttPrimary(outcome))
    /\ WF_vars(\E outcome \in {"text", "empty", "fail"} : UtSttFallback(outcome))
    /\ WF_vars(UtLlmEnd \/ UtLlmFails)
    /\ WF_vars(UtTtsEnd)
    /\ WF_vars(UtSenderIdle)

\* ----------------------------------------------------------- specifications

\* ---- initial states and specifications of the components that follow
OldIdle == PQInit /\ SharedInit /\ VSIdle /\ SMInit /\ PEInit /\ GMIdle /\ DCInit /\ EFIdle /\ SCInit
LaterIdle == TBInit /\ ESInit /\ CCIdle /\ SSInit /\ RPCInit /\ FBIdle
    /\ VADIdle /\ UTIdle

\* The tool bridge of one speech-to-speech engine.
ToolInit == TBInit /\ OldIdle /\ ESInit /\ CCIdle /\ SSInit /\ RPCInit
    /\ FBIdle /\ VADIdle /\ UTIdle
SpecTool == ToolInit /\ [][TBNext]_vars

\* One EchoSuppressor with its callers and its clock.
EchoInit == ESInit /\ OldIdle /\ TBInit /\ CCIdle /\ SSInit /\ RPCInit
    /\ FBIdle /\ VADIdle /\ UTIdle
SpecEcho == EchoInit /\ [][ESNext]_vars

\* One ConversationContext and the turns added to it.
ContextInit == CCInit /\ OldIdle /\ TBInit /\ ESInit /\ SSInit /\ RPCInit
    /\ FBIdle /\ VADIdle /\ UTIdle
SpecContext == ContextInit /\ [][CCNext]_vars

\* One SentenceSplitter fed a text token by token.
SplitterInit == SSInit /\ OldIdle /\ TBInit /\ ESInit /\ CCIdle /\ RPCInit
    /\ FBIdle /\ VADIdle /\ UTIdle
SpecSplitter == SplitterInit /\ [][SSNext]_vars

\* The plugin's service and its join, leave and speak gateway methods.
RpcInit == RPCInit /\ OldIdle /\ TBInit /\ ESInit /\ CCIdle /\ SSInit
    /\ FBIdle /\ VADIdle /\ UTIdle
SpecRpc == RpcInit /\ [][RPCNext]_vars

\* The primary and fallback providers of one pipeline engine.
FallbackInit == FBInit /\ OldIdle /\ TBInit /\ ESInit /\ CCIdle /\ SSInit
    /\ RPCInit /\ VADIdle /\ UTIdle
SpecFallback == FallbackInit /\ [][FBNext]_vars

\* One VoiceActivityDetector with its frames, its model and its clock.
VadInit == VADInit /\ OldIdle /\ TBInit /\ ESInit /\ CCIdle /\ SSInit
    /\ RPCInit /\ FBIdle /\ UTIdle
SpecVad == VadInit /\ [][VADNext]_vars

\* A running VoiceSession on a PipelineEngine, one user.
TurnInit == UTInit /\ OldIdle /\ TBInit /\ ESInit /\ CCIdle /\ SSInit
    /\ RPCInit /\ FBIdle /\ VADIdle
SpecTurn == TurnInit /\ [][UTNext]_vars
SpecTurnFair == SpecTurn /\ UTFair
\* ---- end of specifications

\* The per-guild voice session with its engine events, receiver and sender.
SessionInit == VSInit /\ SharedInit /\ PQInit /\ SMInit /\ PEInit /\ GMIdle /\ DCInit /\ EFIdle /\ SCInit /\ LaterIdle
Spec == SessionInit /\ [][VSNext]_vars

\* The playback queue with its streams and the sender.
QueueInit == PQInit /\ SharedInit /\ VSIdle /\ SMInit /\ PEInit /\ GMIdle /\ DCInit /\ EFIdle /\ SCInit /\ LaterIdle
SpecQueue == QueueInit /\ [][PQNext]_vars

\* The session manager with concurrent join and leave calls on one guild.
ManagerInit == SMInit /\ PQInit /\ SharedInit /\ VSIdle /\ PEInit /\ GMIdle /\ DCInit /\ EFIdle /\ SCInit /\ LaterIdle
SpecManager == ManagerInit /\ [][SMNext]_vars

\* One speech-to-speech engine with a Gemini Live session and its sockets.
GeminiInit == GMInit /\ PQInit /\ SharedInit /\ VSIdle /\ SMInit /\ PEInit /\ DCInit /\ EFIdle /\ SCInit /\ LaterIdle
SpecGemini == GeminiInit /\ [][GMNext]_vars

\* One DiscordConnection with its voice connection and timers.
ConnectionInit == DCInit /\ GMIdle /\ PQInit /\ SharedInit /\ VSIdle /\ SMInit /\ PEInit /\ EFIdle /\ SCInit /\ LaterIdle
SpecConnection == ConnectionInit /\ [][DCNext]_vars

\* createEngine applied to every resolved configuration.
FactoryInit == EFInit /\ DCInit /\ GMIdle /\ PQInit /\ SharedInit /\ VSIdle /\ SMInit /\ PEInit /\ SCInit /\ LaterIdle
SpecFactory == FactoryInit /\ [][EFNext]_vars

\* VoiceSession.start with the connection it joins and the engine it starts.
StartInit == VSInit /\ SCInit /\ DCInit /\ EFIdle /\ GMIdle /\ PQInit /\ SharedInit /\ SMInit /\ PEInit /\ LaterIdle
SpecStart == StartInit /\ [][SCNext]_vars

\* One pipeline engine with its callers and providers.
PipelineInit == PEInit /\ VSIdle /\ PQInit /\ SharedInit /\ SMInit /\ GMIdle /\ DCInit /\ EFIdle /\ SCInit /\ LaterIdle
SpecPipeline == PipelineInit /\ [][PENext]_vars

\* ------------------------------------------------- PlaybackQueue properties

\* No stream the queue was given has errored or been cancelled.
Undisturbed == \A s \in Streams : streamState[s] \in {"unused", "live", "ended"}

\* C1: strict FIFO playback. Without clear() and stream errors, whenever a
\* chunk of stream s has been handed to the sender, every chunk emitted so far
\* by each stream enqueued before s was handed to the sender before it: the
\* log is grouped by stream in enqueue order and loses no chunk of an earlier
\* stream.
C1_StrictFifo ==
    Undisturbed =>
        \A i \in 1..Len(senderLog) : \A t \in Streams :
            t < senderLog[i][1] =>
                \A k \in 1..entries[t].audioChunks :
                    \E j \in 1..(i - 1) : senderLog[j] = <<t, k>>

\* C2: barge-in atomicity of clear(). No chunk of a stream enqueued before a
\* clear() is handed to the sender after it; the streams that were current or
\* pending at a clear() have had exactly one cancel() and no other stream has
\* had any; right after clear() isPlaying and the bot-speaking flag are false.
C2_ClearAtomic ==
    /\ \A s \in Streams :
          /\ clearMark[s] >= 0 =>
                \A i \in 1..Len(senderLog) :
                    i > clearMark[s] => senderLog[i][1] # s
          /\ cancelCalls[s] = IF s \in cleared THEN 1 ELSE 0
    /\ lastOp = "clear" => ~IsPlaying /\ ~isBotSpeaking

\* C2 witness: a clear() cancelled a stream that had already played a chunk,
\* and the sender was handed chunks of a later stream afterwards.
C2_Witness ==
    \E s \in Streams :
        /\ s \in cleared
        /\ clearMark[s] > 0
        /\ Len(senderLog) > clearMark[s]

\* The entry of stream s has been taken out of the pending queue.
Promoted(s) == s < nextStream /\ \A i \in 1..Len(queue) : queue[i] # s

\* C27: promotion condition. Without clear() and stream errors, an entry is
\* current or has had chunks handed to the sender only once the stream of
\* every entry enqueued before it has ended; and an entry that became current
\* is not demoted by a sender idle event while its stream still produces:
\* every chunk its stream has emitted has been handed to the sender.
C27_PromotionCondition ==
    Undisturbed =>
        /\ \A s, n \in Streams :
              s < n /\ (currentEntry = n \/
                        \E i \in 1..Len(senderLog) : senderLog[i][1] = n) =>
                  streamState[s] = "ended"
        /\ \A s \in Streams :
              Promoted(s) =>
                  \A k \in 1..entries[s].audioChunks :
                      \E i \in 1..Len(senderLog) : senderLog[i] = <<s, k>>

\* C28: stream errors. A stream that errored while its entry was pending
\* caused no error event of the queue, one that errored while its entry was
\* current caused an error event carrying its error; an errored stream's
\* entry is neither pending nor current, the pending entries stay in enqueue
\* order, and after an error the next pending entry, if any, is current.
C28_StreamErrors ==
    /\ \A s \in Streams :
          /\ erroredAs[s] = "pending" => s \notin errorEvents
          /\ erroredAs[s] = "current" => s \in errorEvents
          /\ streamState[s] = "errored" =>
                currentEntry # s /\ \A i \in 1..Len(queue) : queue[i] # s
    /\ \A i, j \in 1..Len(queue) : i < j => queue[i] < queue[j]
    /\ lastOp = "error" /\ queue # <<>> => currentEntry # NoEntry

\* -------------------------------------------------- VoiceSession properties

\* C3: barge-in transition. A user-speaking-start handled while the state is
\* speaking and bargeIn is enabled leaves the state listening, has called
\* engine.interrupt() exactly once, closed the PassThrough, stopped the sender
\* and dropped the bot-speaking flag; handled with bargeIn disabled or in any
\* other state it has called interrupt() zero times.
C3_BargeIn ==
    lastEv.kind = "user-speaking-start" =>
        IF lastEv.from = "speaking" /\ bargeIn
        THEN /\ sessionState = "listening"
             /\ lastEv.interrupts = 1
             /\ ~activePassthrough
             /\ ~senderPlaying
             /\ ~isBotSpeaking
        ELSE lastEv.interrupts = 0

\* C3 witness: a barge-in has just been handled.
C3_Witness ==
    /\ lastEv.kind = "user-speaking-start"
    /\ lastEv.from = "speaking"
    /\ bargeIn
    /\ lastEv.interrupts = 1

\* C5: stop() is terminal. Once stop() has resolved the state is idle, no
\* PassThrough is open and no handler that ran since has emitted an event.
C5_StopTerminal ==
    sessionPc = "stopped" =>
        /\ sessionState = "idle"
        /\ ~activePassthrough
        /\ lastEv.emits = 0

AudioOutHandled ==
    \/ lastEv.src = "engine" /\ lastEv.kind = "audio-out"
    \/ lastEv.src = "provider" /\ lastEv.kind = "audio"

\* C6: bot-speaking flag in a running session. The flag is true once an
\* audio-out chunk has been handled and false once the sender has gone idle.
C6_FlagFollowsPlayback ==
    sessionPc = "running" =>
        /\ AudioOutHandled => isBotSpeaking
        /\ lastEv.kind = "sender-idle" => ~isBotSpeaking

\* C7 as stated: a packet handled while the state is speaking that passes
\* echo suppression reaches the VAD and is not passed to engine.feedAudio.
C7_SpeakingNotFed ==
    lastEv.kind = "packet" /\ lastEv.from = "speaking" /\ lastEv.passed =>
        lastEv.fedVad /\ ~lastEv.fedEngine

\* C7 amended: a packet handled while the state is speaking that passes echo
\* suppression reaches the VAD and is also passed to engine.feedAudio; a
\* suppressed one reaches neither.
C7_SpeakingFedBoth ==
    lastEv.kind = "packet" /\ lastEv.from = "speaking" =>
        /\ lastEv.passed => lastEv.fedVad /\ lastEv.fedEngine
        /\ ~lastEv.passed => ~lastEv.fedVad /\ ~lastEv.fedEngine

\* C7 witness: a packet passed echo suppression while the bot was speaking.
C7_Witness ==
    /\ lastEv.kind = "packet"
    /\ lastEv.from = "speaking"
    /\ lastEv.passed
    /\ lastEv.fedEngine

\* C8: speech-to-speech turn end. Handling the provider's turn-end emits the
\* engine's turn-end once, and a session that was speaking is listening with
\* its PassThrough closed afterwards.
C8_S2sTurnEnd ==
    lastEv.src = "provider" /\ lastEv.kind = "turn-end" =>
        /\ lastEv.turnEnds = 1
        /\ lastEv.from = "speaking" =>
              sessionState = "listening" /\ ~activePassthrough

\* ------------------------------------------------ SessionManager properties

\* A session is live: its start() is pending or has resolved, and stop() has
\* not been called on it.
Live(s) == startPc[s] \in {"pending", "done"} /\ stopPc[s] = "none"

\* C4: at most one live session per guild. At most one session is live, a
\* live session is the one stored in the map, and when a session's start()
\* has been called every session created before it whose start() did not
\* fail has been stopped.
C4_OneLivePerGuild ==
    /\ Cardinality({s \in SessionIds : Live(s)}) <= 1
    /\ \A s \in SessionIds : Live(s) => sessions = s
    /\ \A s, n \in SessionIds :
          s < n /\ startPc[n] # "none" /\ startPc[s] # "failed" =>
              stopPc[s] = "done"

\* C20: SessionManager.leave(g). A leave that found no session for g has
\* resolved and found nothing to change. A leave that found a session does
\* not reject, has removed the session from the map and called stop() on it,
\* has resolved only after that stop() resolved, and a session-end summary
\* (sent only in speech-to-speech mode with a non-empty history snapshot) is
\* never dispatched before a stop() has resolved.
C20_LeaveStopsThenSummarises ==
    /\ \A l \in LeaveCalls :
          leavePc[l] # "idle" =>
              IF leaveSess[l] = NoSession
              THEN leavePc[l] = "done"
              ELSE /\ leavePc[l] # "failed"
                   /\ sessions # leaveSess[l]
                   /\ stopPc[leaveSess[l]] # "none"
                   /\ leavePc[l] = "done" => stopPc[leaveSess[l]] = "done"
    /\ summaries > 0 => \E s \in SessionIds : stopPc[s] = "done"

\* ------------------------------------------------ PipelineEngine properties

\* C9: sentence-ordered playback. An audio-out chunk of sentence k of a reply
\* is never emitted after a chunk of a later sentence of the same reply.
C9_SentenceOrder ==
    "audio-out" \in {lastEmit.evs[i] : i \in 1..Len(lastEmit.evs)} =>
        lastEmit.sentence >= lastEmit.after

\* C10: interrupt suppression. Once interrupt() was called during a reply, no
\* sentence of that reply is submitted to TTS and no audio-out chunk of one of
\* its TTS streams is emitted, whatever the engine has started since.
C10_InterruptSuppresses ==
    /\ \A s \in Streams : tts[s].state # "none" => ~tts[s].late
    /\ lastEmit.evs = <<"audio-out">> => ~lastEmit.late


\* The processUtterance calls in flight: utterance turns awaiting the
\* transcription or the agent response.
InFlight == {r \in TurnIds : turns[r].kind = "utterance" /\ turns[r].phase \in {"stt", "llm"}}

\* C11: pipeline processing lock. At most one processUtterance is in flight,
\* and isProcessing is true exactly while one is: an endOfSpeech during
\* processing starts nothing, and every outcome releases the lock.
C11_ProcessingLock ==
    /\ Cardinality(InFlight) <= 1
    /\ isProcessing <=> InFlight # {}

\* a second utterance is being processed after the first one's outcome
\* released the lock
C11_Witness ==
    /\ isProcessing
    /\ \E r, n \in TurnIds :
          /\ turns[r].kind = "utterance" /\ turns[r].phase = "done"
          /\ n \in InFlight


\* ---------------------------------------------- GeminiLiveSession properties

\* C12: rotation continuity. The close event of a socket that a successful
\* rotation closed makes the session emit no error event.
C12_RotationSilent ==
    lastGem.kind = "closed" /\ lastGem.rotation => lastGem.errors = 0

\* C13: make-before-break rotation. A socket closed by a rotation has a later
\* socket that opened and carried its setup frame; and while the session is
\* connected and the server has dropped no socket, some socket is open.
C13_MakeBeforeBreak ==
    /\ \A s \in SocketIds :
          sockets[s].closedBy = "rotation" =>
              \E n \in SocketIds : n > s /\ sockets[n].setup.sent
    /\ (/\ geminiPc \in {"ready", "rotating"}
        /\ \A s \in SocketIds : sockets[s].closedBy # "server")
       => \E s \in SocketIds : sockets[s].state = "open"

\* a rotation has completed: the old socket is closing, the new one is open
C13_Witness ==
    /\ geminiPc = "ready"
    /\ \E s, n \in SocketIds :
          /\ sockets[s].closedBy = "rotation" /\ sockets[s].state = "closing"
          /\ sockets[n].state = "open" /\ ws = n

\* C14: context survives rotation. The setup frame a rotation sends on the
\* new socket carries the last 10 turns of the conversation as it stands at
\* that time, in order.
C14_ContextSurvives ==
    lastGem.kind = "open" /\ lastGem.rotation =>
        /\ lastGem.setup.sent
        /\ lastGem.setup.history = FormatHistory(lastGem.conv)

\* C15: failed rotation. When the new socket of a rotation fails to open, an
\* error event is emitted and the old socket is not closed.
C15_FailedRotation ==
    lastGem.kind = "failed" /\ lastGem.rotation =>
        lastGem.errors >= 1 /\ ~lastGem.oldClosed

\* a rotation has just failed and the socket it started from is still open
C15_Witness ==
    /\ lastGem.kind = "failed" /\ lastGem.rotation
    /\ \E s \in SocketIds : s < lastGem.sock /\ sockets[s].state = "open"

\* C16: rotation timing. Every socket open arms the timer with
\* sessionDurationMs minus the rotation buffer, or 0 if that is negative; with
\* no duration configured that is 9 minutes.
C16_RotationTiming ==
    lastGem.kind = "open" =>
        LET d == ResolveSessionDurationMs(rawDurationMs)
        IN /\ lastGem.timer >= 0
           /\ d >= GEMINI_SESSION_ROTATION_BUFFER_MS =>
                 lastGem.timer = d - GEMINI_SESSION_ROTATION_BUFFER_MS
           /\ d < GEMINI_SESSION_ROTATION_BUFFER_MS => lastGem.timer = 0
           /\ rawDurationMs = Unset => lastGem.timer = 9 * 60 * 1000


\* ---------------------------------------------- DiscordConnection properties

\* C17: bounded manual rejoin. While the connection has not become ready
\* again, at most 5 rejoin attempts are made, attempt n after a wait of
\* 500 * 2^(n-1) ms, and once attemptRejoin has given up no chain is left
\* sleeping or joining.
C17_BoundedRejoin ==
    /\ Len(rejoinDelays) <= 5
    /\ \A n \in 1..Len(rejoinDelays) : rejoinDelays[n] = 500 * Pow2(n - 1)
    /\ gaveUp => \A c \in ChainIds : chains[c] \notin {"sleep", "joining"}


\* -------------------------------------------------- engine factory properties

\* An S2S provider is configured and the API key of that provider is not empty.
ProviderHasKey ==
    \/ cfgProvider = "openai-realtime" /\ cfgOpenaiKey # ""
    \/ cfgProvider = "gemini-live" /\ cfgGeminiKey # ""

C19_StartFailureCleanup ==
    startRejected.at # "none" =>
        /\ startRejected.connection = "none"
        /\ ~startRejected.heartbeatTimer
        /\ ~startRejected.audioSender
        /\ ~startRejected.audioReceiver
        /\ startRejected.state = "idle"

\* -------------------------------------------------- tool bridge properties

\* C21: tool-call bridging. No exception leaves the handler of a tool-call
\* event; while the tool is executing nothing has been sent; and once the
\* handler has finished with the session still open, sendToolResult has been
\* invoked exactly once, with the call id of the event, carrying the tool's
\* result if the tool is registered and returned and an error payload if the
\* name is unknown or the tool threw.
C21_ToolBridging ==
    \A c \in ToolCallIds :
        LET call == toolCalls[c] IN
        /\ call.state \in {"none", "executing", "settled"}
        /\ call.state = "executing" => call.sends = <<>>
        /\ call.state = "settled" /\ call.open =>
              /\ Len(call.sends) = 1
              /\ call.sends[1].callId = call.callId
              /\ call.sends[1].payload =
                    (IF call.name \in ToolRegistry /\ call.outcome = "returns"
                     THEN "result" ELSE "error")

\* A tool that threw was answered with an error payload and a later call on
\* the same session was answered with its result.
C21_Witness ==
    /\ toolSession = "open"
    /\ toolCalls[1].state = "settled" /\ toolCalls[1].outcome = "throws"
    /\ toolCalls[1].sends # <<>>
    /\ toolCalls[2].state = "settled" /\ toolCalls[2].outcome = "returns"
    /\ toolCalls[2].sends # <<>>

\* ----------------------------------------------- EchoSuppressor properties

\* The registered outbound RMS values the ring should hold: the most recent
\* historyLength of them.
RecentOutbound ==
    LET n == Len(registered)
        k == IF n > historyLength THEN historyLength ELSE n
    IN  SubSeq(registered, n - k + 1, n)

\* C22: echo suppression while the bot speaks. The outbound history never
\* holds more than 50 values and holds exactly the most recent ones; and a
\* shouldSuppress call made while the bot-speaking flag is true returned true
\* exactly when the frame's RMS is below 1.4 times the mean R of those values
\* (R taken as 0 when there are none).
C22_EchoWhileSpeaking ==
    /\ Len(outboundRmsHistory) <= 50
    /\ outboundRmsHistory = RecentOutbound
    /\ lastSuppress # NoSuppress /\ echoBotSpeaking =>
          LET n == Len(RecentOutbound)
              sum == SumSeq(RecentOutbound)
          IN  lastSuppress.result <=>
                  (IF n = 0 THEN lastSuppress.rms < 0
                   ELSE 10 * lastSuppress.rms * n < 14 * sum)

\* More than 50 frames were registered, the oldest of them differing from the
\* retained ones, and a frame was suppressed while the bot was speaking.
C22_Witness ==
    /\ Len(registered) > historyLength
    /\ registered[1] # registered[Len(registered)]
    /\ echoBotSpeaking
    /\ lastSuppress # NoSuppress /\ lastSuppress.result

\* C29: echo cooldown. A shouldSuppress call made while the bot-speaking flag
\* is false returned true exactly when setSpeaking has taken the flag from
\* true to false since construction and since the last reset(), less than
\* 300 ms have passed since the last time it did so, and the frame's RMS is
\* below 600. A setSpeaking(false) that finds the flag false is no such
\* transition.
C29_EchoCooldown ==
    lastSuppress # NoSuppress /\ ~echoBotSpeaking =>
        (lastSuppress.result <=>
            /\ lastFallAt # NoFall
            /\ echoNow - lastFallAt < 300
            /\ lastSuppress.rms < 600)

\* A quiet frame was suppressed during the cooldown, after time had passed
\* since the bot stopped.
C29_Witness ==
    /\ ~echoBotSpeaking
    /\ lastFallAt # NoFall /\ echoNow > lastFallAt
    /\ lastSuppress # NoSuppress /\ lastSuppress.result

\* ------------------------------------------ ConversationContext properties

\* C23: conversation window. After any number of addTurn calls the history
\* holds min(number of calls, maxTurns) turns, and they are the most recently
\* appended ones in the order they were appended.
C23_ConversationWindow ==
    LET n == Len(appended)
        k == IF n < contextMaxTurns THEN n ELSE contextMaxTurns
    IN  /\ Len(contextTurns) = k
        /\ contextTurns = SubSeq(appended, n - k + 1, n)

\* More turns than the default window of 50 were appended.
C23_Witness ==
    /\ contextMaxTurns = 50
    /\ Len(appended) > contextMaxTurns
    /\ Len(contextTurns) = 50

\* --------------------------------------------- SentenceSplitter properties

\* C24: sentence splitting does not depend on the tokenization. Whatever
\* consecutive tokens "Hi there. How are you?" was cut into, after feeding
\* them and calling flush the splitter has yielded exactly "Hi there." and
\* "How are you?", in that order.
C24_SplitAnyTokenization ==
    flushed => sentences = <<SentenceOne, SentenceTwo>>

\* The text was fed with a token ending between the full stop and the space
\* after it, then flushed.
C24_Witness ==
    /\ flushed
    /\ Len(tokenLens) >= 2 /\ tokenLens[1] = 9

\* ------------------------------------------ gateway RPC method properties

\* C25: management RPC error contract. No invocation of join, leave or speak
\* throws out of its handler, whether or not the service is running; an
\* invocation that is still awaiting the manager has not responded, and a
\* finished one has called respond exactly once, either with success or with
\* a falsy success flag and an error.
C25_RpcRespondsOnce ==
    \A c \in RpcIds :
        LET call == rpcCalls[c] IN
        /\ ~call.threw
        /\ call.state = "awaiting" => call.responds = <<>>
        /\ call.state = "done" =>
              /\ Len(call.responds) = 1
              /\ call.responds[1].success <=> ~call.responds[1].error

\* ------------------------------------------- provider fallback properties

\* C26: provider fallback chains. When the primary transcription of an
\* utterance failed and a fallback STT is configured, the fallback has been
\* tried, and the error is surfaced only if the fallback failed too; when the
\* primary TTS stream of a sentence failed and a fallback TTS is configured,
\* the sentence has been retried with the fallback.
C26_FallbackChains ==
    /\ \A u \in UtteranceIds :
          /\ sttCalls[u].primary = "failed" /\ fallbackStt =>
                sttCalls[u].fallback # "none"
          /\ sttCalls[u].result = "error" /\ fallbackStt =>
                sttCalls[u].fallback = "failed"
    /\ \A k \in SentenceIds :
          ttsCalls[k].primary = "failed" /\ fallbackTts =>
              ttsCalls[k].fallback # "none"

\* ---------------------------------------- VoiceActivityDetector properties

\* C30: RMS VAD and downgrade. A frame handled by the RMS engine caused
\* speech-start exactly when it was above the threshold and the engine was not
\* speaking, and speech-end exactly when it was not above the threshold, the
\* engine was speaking and at least silenceDurationMs had passed since the
\* last above-threshold frame; and once a load or processing error has
\* switched the detector to the RMS engine, the engine stays RMS and no frame
\* is handed to the neural engine.
C30_RmsVadAndDowngrade ==
    /\ lastVad.kind = "rms" =>
          /\ lastVad.emitted = "speech-start" <=>
                lastVad.above /\ ~lastVad.wasSpeaking
          /\ lastVad.emitted = "speech-end" <=>
                /\ ~lastVad.above
                /\ lastVad.wasSpeaking
                /\ lastVad.since >= 1500
    /\ downgraded => vadEngine = "rms"
    /\ lastVad.kind = "silero" => ~lastVad.afterDowngrade

\* After a processing error with the model loaded, the RMS engine ended a
\* speech segment whose silence window an above-threshold frame had restarted.
C30_Witness ==
    /\ downgraded /\ sileroVad = "ready"
    /\ lastVad.kind = "rms" /\ lastVad.emitted = "speech-end"
    /\ lastAboveAt > VadEpoch


\* -------------------------------------- PipelineEngine properties, continued

\* C31: turn-end closes a reply's audio. An audio-out chunk is never emitted
\* for a reply whose turn-end has already been emitted.
C31_TurnEndAfterAudio ==
    lastEmit.evs = <<"audio-out">> => ~lastEmit.ended


\* C32: no stuck processing state. Whenever the running session is in state
\* processing, it is eventually in state listening, provided the pending
\* operations of the engine complete.
C32_NoStuckProcessing ==
    (utState = "processing") ~> (utState = "listening")


\* C33: turn serialization including injected text. At most one
\* generateAndSpeak, whether started by endOfSpeech or by injectText, awaits
\* its agent response at any time.
C33_OneGenerateAndSpeak ==
    Cardinality({r \in TurnIds : turns[r].phase = "llm"}) <= 1


\* C34: utterance audio boundaries. The audio of an utterance holds no frame
\* that was fed before an earlier end-of-speech event of the same user, also
\* when that event was discarded because the engine was processing.
C34_UtteranceBoundaries ==
    \A r \in TurnIds : turns[r].kind = "utterance" => ~turns[r].carried


\* C35: the interrupted flag is cleared at the start of every turn. A token
\* of an injected reply is dropped only when interrupt() was called during
\* that reply, never because of an interrupt() that preceded the injectText.
C35_InjectAfterInterrupt ==
    \A r \in TurnIds :
        turns[r].kind = "inject" /\ turns[r].dropped => turns[r].hit


\* ------------------------------------- SessionManager properties, continued

\* C36: identity-guarded map removal. When a join whose session failed to
\* start removes the guild's map entry, the entry referred to that session:
\* the entry of a newer session is never removed on behalf of an older one.
C36_IdentityGuardedRemoval ==
    [][\A j \in JoinCalls :
          joinPc[j] = "await-start" /\ joinPc'[j] = "failed" =>
              sessions' = sessions \/ sessions = joinSess[j]]_vars


\* ---------------------------------- GeminiLiveSession properties, continued

\* C37: close() releases everything. Once close() has run, no socket the
\* session created is open or connecting and no rotation timer is armed, also
\* when close() ran while a rotation was in flight.
C37_CloseReleasesAll ==
    geminiPc = "closed" =>
        /\ \A s \in SocketIds : sockets[s].state \notin {"open", "connecting"}
        /\ rotationTimer = NoTimer

\* C38: after a failed rotation the session stays usable. When the new socket
\* of a rotation has failed to open while a socket of the session is open,
\* this.ws is an open socket, so that frames sent are transmitted, and a
\* rotation timer is armed.
C38_UsableAfterFailedRotation ==
    lastGem.kind = "failed" /\ lastGem.rotation =>
        /\ (\E s \in SocketIds : sockets[s].state = "open") => CanSend(sockets, ws)
        /\ rotationTimer # NoTimer


\* ------------------------------ VoiceActivityDetector properties, continued

\* C39: speech-start and speech-end alternate. Over the detector's lifetime
\* the first event is speech-start and no event is emitted twice in a row,
\* whichever engine emitted it.
C39_EventsAlternate ==
    /\ vadLastEvent # "none" => vadLastEvent # vadPrevEvent
    /\ vadPrevEvent = "none" => vadLastEvent # "speech-end"


\* -------------------------------------- PlaybackQueue properties, continued

\* C40: a late idle notification of clear(). When the idle notification
\* caused by the sender.stop() of a clear() is delivered while an entry
\* enqueued after that clear() is current, the entry stays current.
C40_LateIdleAfterClear ==
    [][(/\ idlePending /\ ~idlePending' /\ lastOp' = "idle"
        /\ currentEntry # NoEntry
        /\ clearMark[currentEntry] = -1)
       => currentEntry' = currentEntry]_vars

====
